---- MODULE Spec2Model ----
(***************************************************************************)
(* Smart LeadMailer Pro: the job progression engine (cron tick, the three  *)
(* stage handlers), email inference, the suppression ledger, the outreach  *)
(* sender, the manual send trigger and the unsubscribe link, modelled over *)
(* an abstract document store.                                             *)
(***************************************************************************)
EXTENDS Integers, Sequences, FiniteSets, Bags, TLC

VARIABLES
    jobs,            \* Seq of job documents, in creation order (index = job id)
    prospects,       \* Seq of prospect documents (index = prospect id)
    ledger,          \* bag of unsubscribe documents
    faults,          \* number of store / provider failures that have happened
    dispatched,      \* per prospect: messages the email provider has accepted
    prospectInScope, \* whether the identifier read at sendgrid.ts:90 is bound
    last,            \* what the last request did and answered
    running          \* discovery handlers between their reads and their writes

vars == <<jobs, prospects, ledger, faults, dispatched, prospectInScope, last, running>>

----------------------------------------------------------------------------
(* Bounds of the model *)

MaxJobs == 2          \* jobs created in SpecJobs
MaxBusinesses == 2    \* largest maxBusinesses of a job, so prospects per job
MaxProspects == 2     \* prospect documents in the store
MaxLedger == 1        \* unsubscribe documents in the store
MaxFaults == 1        \* store / provider failures in one behaviour of Spec
MaxTickFaults == 2    \* store / provider failures in one behaviour of SpecJobs
MaxManyJobs == 51     \* jobs created in SpecMany
MaxRunning == 2       \* discovery handlers in flight at once in SpecOverlap
MaxRecords == 2       \* unsubscribe documents in the store in SpecLedger
MaxPages == 3         \* result pages the places provider serves for one search
MaxLarge == 51        \* businesses of the large job (one more than a discovery batch)

(* Program constants *)

EMAIL_DISCOVERY_BATCH_SIZE == 50
SENDING_BATCH_SIZE == 10
MANUAL_SEND_BATCH_SIZE == 10
GET_ALL_JOBS_LIMIT == 50
PLACES_PAGE_SIZE == 20

----------------------------------------------------------------------------
(* Strings: the few the model distinguishes, and the conversions on them *)

\* String.prototype.toLowerCase on the strings of the model
Lower(s) ==
    CASE s = "INFO" -> "info"
      [] s = "Foo.com" -> "foo.com"
      [] s = "www.Example.com" -> "www.example.com"
      [] OTHER -> s

\* hostname.replace(/^www\./, '')
StripWww(h) ==
    CASE h = "www.example.com" -> "example.com"
      [] h = "www.Example.com" -> "Example.com"
      [] OTHER -> h

\* whether new URL(scheme://host) parses
ParsableHost(h) == h \notin {"", "not a url"}

NoEmail == [local |-> "", domain |-> ""]
NoWebsite == [scheme |-> "", host |-> "", path |-> ""]
NoDomain == ""

\* email.toLowerCase()
LowerEmail(e) == [local |-> Lower(e.local), domain |-> Lower(e.domain)]

EMAIL_PATTERNS == <<"info", "contact", "hello", "admin", "support", "business">>

\* websiteUri values the places provider returns
PlaceUris ==
    { NoWebsite,
      [scheme |-> "http", host |-> "foo.com", path |-> ""],
      [scheme |-> "https", host |-> "www.Example.com", path |-> "/path"] }

\* email addresses that arrive from outside (unsubscribe tokens, webhook events)
ExternalEmails ==
    { [local |-> "info", domain |-> "foo.com"],
      [local |-> "contact", domain |-> "foo.com"],
      [local |-> "INFO", domain |-> "Foo.com"] }

----------------------------------------------------------------------------
(* places.ts: cleanWebsiteUrl *)

cleanWebsiteUrl(u) ==
    IF u = NoWebsite \/ ~ParsableHost(u.host)
    THEN NoWebsite
    ELSE [scheme |-> u.scheme, host |-> Lower(u.host), path |-> ""]

(* emailDiscovery: extractDomain, generateInferredEmails *)

extractDomain(w) ==
    IF w = NoWebsite \/ ~ParsableHost(w.host)
    THEN NoDomain
    ELSE StripWww(Lower(w.host))

generateInferredEmails(domain) ==
    [i \in 1..Len(EMAIL_PATTERNS) |-> [local |-> EMAIL_PATTERNS[i], domain |-> domain]]

----------------------------------------------------------------------------
(* firestore.ts: the suppression ledger *)

\* the unsubscribe document addUnsubscribe writes
UnsubDoc(email, jobId) ==
    [email |-> LowerEmail(email), domain |-> Lower(email.domain), jobId |-> jobId]

addUnsubscribeMutNoDomain(led, email, jobId) ==
    led (+) SetToBag({[UnsubDoc(email, jobId) EXCEPT !.domain = NoDomain]})

addUnsubscribeMutDrop(led, email, jobId) == led

addUnsubscribe(led, email, jobId) ==
    led (+) SetToBag({UnsubDoc(email, jobId)})

isUnsubscribedMutExact(led, email) ==
    {d \in BagToSet(led) : d.email = LowerEmail(email)} # {}

isUnsubscribed(led, email) ==
    LET domain == Lower(email.domain)
        emailSnap == {d \in BagToSet(led) : d.email = LowerEmail(email)}
        domainSnap == {d \in BagToSet(led) : d.domain = domain}
    IN  emailSnap # {} \/ domainSnap # {}

----------------------------------------------------------------------------
(* emailDiscovery: discoverEmailForProspect *)

RECURSIVE FirstViable(_, _, _)
\* the loop of discoverEmailForProspect from candidate i on
FirstViable(led, candidates, i) ==
    IF i > Len(candidates) THEN [discoveredEmail |-> NoEmail, status |-> "no_email"]
    ELSE IF ~isUnsubscribed(led, candidates[i])
         THEN [discoveredEmail |-> candidates[i], status |-> "email_found"]
         ELSE FirstViable(led, candidates, i + 1)

discoverEmailForProspectMutNoCheck(led, website) ==
    IF website = NoWebsite THEN [discoveredEmail |-> NoEmail, status |-> "no_website"]
    ELSE IF extractDomain(website) = NoDomain
         THEN [discoveredEmail |-> NoEmail, status |-> "no_email"]
         ELSE [discoveredEmail |-> generateInferredEmails(extractDomain(website))[1],
               status |-> "email_found"]

discoverEmailForProspectMutNoSiteCheck(led, website) ==
    FirstViable(led, generateInferredEmails(extractDomain(website)), 1)

discoverEmailForProspect(led, website) ==
    IF website = NoWebsite THEN [discoveredEmail |-> NoEmail, status |-> "no_website"]
    ELSE LET domain == extractDomain(website)
         IN  IF domain = NoDomain
             THEN [discoveredEmail |-> NoEmail, status |-> "no_email"]
             ELSE FirstViable(led, generateInferredEmails(domain), 1)

----------------------------------------------------------------------------
(* The document store: jobs and prospects *)

JobStatuses == {"draft", "prospecting", "discovering", "sending", "completed", "failed"}
ActiveStatuses == {"draft", "prospecting", "discovering", "sending"}
ProspectStatuses ==
    {"found", "no_website", "no_email", "email_found", "sent", "bounced", "unsubscribed"}

ZeroStats ==
    [found |-> 0, withWebsite |-> 0, withEmail |-> 0, sent |-> 0, bounced |-> 0,
     unsubscribed |-> 0]

\* jobs/route.ts POST: the document createJob stores
NewJob(maxBusinesses) ==
    [status |-> "draft", maxBusinesses |-> maxBusinesses, stats |-> ZeroStats]

\* firestore.ts updateJobStatus (no stats given)
updateJobStatus(js, j, status) == [js EXCEPT ![j].status = status]

incrementJobStatMutAll(js, j, statField, amount) ==
    [k \in 1..Len(js) |-> [js[k] EXCEPT !.stats[statField] = @ + amount]]

\* firestore.ts incrementJobStat
incrementJobStat(js, j, statField, amount) ==
    [js EXCEPT ![j].stats[statField] = @ + amount]

\* the provider's x-message-id of the n-th message accepted for prospect p
MessageId(p, n) == <<p, n>>
NoMessageId == <<>>

\* places.ts getProspectsFromPlaces: one business as prospect data
ProspectData(j, uri) == [jobId |-> j, website |-> cleanWebsiteUrl(uri)]

\* firestore.ts batchCreateProspects: the document written for one business
NewProspect(d) ==
    [jobId |-> d.jobId, status |-> "found", website |-> d.website,
     discoveredEmail |-> NoEmail, sendGridMessageId |-> NoMessageId,
     sentAt |-> FALSE, bouncedAt |-> FALSE, bounceReason |-> "",
     unsubscribedAt |-> FALSE]

batchCreateProspects(ps, data) ==
    ps \o [i \in 1..Len(data) |-> NewProspect(data[i])]

\* firestore.ts updateProspectStatus: discoveredEmail is written only when truthy
updateProspectStatus(ps, p, status, discoveredEmail) ==
    IF discoveredEmail # NoEmail
    THEN [ps EXCEPT ![p].status = status, ![p].discoveredEmail = discoveredEmail]
    ELSE [ps EXCEPT ![p].status = status]

\* ids of the prospects of job j in the given status, in document order
RECURSIVE IdsFrom(_, _, _, _)
IdsFrom(ps, j, status, i) ==
    IF i > Len(ps) THEN <<>>
    ELSE IF ps[i].jobId = j /\ ps[i].status = status
         THEN <<i>> \o IdsFrom(ps, j, status, i + 1)
         ELSE IdsFrom(ps, j, status, i + 1)

Take(s, n) == IF Len(s) <= n THEN s ELSE SubSeq(s, 1, n)

\* firestore.ts getProspectsForJob: the page filtered by status (limit 0 stands for
\* no limit given), and the count of every prospect of the job (the count query
\* has no status filter)
getProspectsForJob(ps, j, status, limit) ==
    [prospects |-> IF limit = 0 THEN IdsFrom(ps, j, status, 1)
                   ELSE Take(IdsFrom(ps, j, status, 1), limit),
     total |-> Cardinality({i \in 1..Len(ps) : ps[i].jobId = j})]

getProspectsForSendingMutNoLimit(ps, j, batchSize) == IdsFrom(ps, j, "email_found", 1)

\* firestore.ts getProspectsForSending
getProspectsForSending(ps, j, batchSize) == Take(IdsFrom(ps, j, "email_found", 1), batchSize)

\* firestore.ts getAllJobs: ids of the newest jobs first, at most limit of them
getAllJobs(js, limit) ==
    [i \in 1..(IF Len(js) <= limit THEN Len(js) ELSE limit) |-> Len(js) + 1 - i]

\* cron GET: activeJobs, each with the status it was loaded with
RECURSIVE ActiveSnapshots(_, _, _)
ActiveSnapshots(js, ids, i) ==
    IF i > Len(ids) THEN <<>>
    ELSE IF js[ids[i]].status \in ActiveStatuses
         THEN <<[id |-> ids[i], status |-> js[ids[i]].status]>>
              \o ActiveSnapshots(js, ids, i + 1)
         ELSE ActiveSnapshots(js, ids, i + 1)

----------------------------------------------------------------------------
(* services/places.ts: geocodeLocation, searchBusinesses, fetchNextPage     *)
(* The provider of one search: how geocoding answers, how many places match *)
(* the query, how many places it puts on a page at most, and how the        *)
(* request for its k-th page ends.                                          *)

GeoOutcomes == {"ok", "zero_results", "network_error"}
PageOutcomes == {"ok", "no_places", "error_response", "network_error"}

Min(a, b) == IF a <= b THEN a ELSE b

\* no nextPageToken in the response
NoPageToken == [offset |-> 0, page |-> 0]

\* the place the provider lists k-th: its id and its websiteUri
Place(k) ==
    [id |-> k,
     websiteUri |-> IF k % 2 = 0 THEN NoWebsite
                    ELSE [scheme |-> "https", host |-> "www.Example.com", path |-> "/path"]]

\* the provider's response body to a searchText request for `pageSize` places
\* after the first `offset` ones: the places and, when more follow, the token of
\* the next page
PlacesResponse(world, offset, page, pageSize) ==
    LET n == Min(Min(pageSize, world.cap), world.total - offset)
    IN  [places |-> [i \in 1..n |-> Place(offset + i)],
         nextPageToken |-> IF offset + n < world.total
                           THEN [offset |-> offset + n, page |-> page + 1]
                           ELSE NoPageToken]

\* lines 127-135 and 180-188: data.places.map(...)
MapPlaces(places) ==
    [i \in 1..Len(places) |->
        [placeId |-> places[i].id, website |-> cleanWebsiteUrl(places[i].websiteUri)]]

\* what a call leaves: the businesses it returns, or that it threw, and the page
\* requests it made
Found(businesses, requests) ==
    [thrown |-> FALSE, businesses |-> businesses, requests |-> requests]
Threw(requests) == [thrown |-> TRUE, businesses |-> <<>>, requests |-> requests]

\* lines 39-61: whether geocodeLocation throws
geocodeLocation(world) == world.geocode # "ok"

\* lines 152-189
fetchNextPage(world, pageToken, maxBusinesses) ==
    LET outcome == world.pages[pageToken.page]
        data == PlacesResponse(world, pageToken.offset, pageToken.page,
                               Min(maxBusinesses, PLACES_PAGE_SIZE))
    IN  CASE outcome = "network_error" -> Threw(1)
          [] outcome = "error_response" -> Found(<<>>, 1)
          [] outcome = "no_places" -> Found(<<>>, 1)
          [] OTHER -> Found(MapPlaces(data.places), 1)

\* lines 74-147
searchBusinesses(world, maxBusinesses) ==
    LET outcome == world.pages[1]
        data == PlacesResponse(world, 0, 1, Min(maxBusinesses, PLACES_PAGE_SIZE))
        businesses == MapPlaces(data.places)
        remaining == maxBusinesses - Len(businesses)
        nextPageResults == fetchNextPage(world, data.nextPageToken, remaining)
    IN  IF geocodeLocation(world) THEN Threw(0)
        ELSE CASE outcome \in {"network_error", "error_response"} -> Threw(1)
               [] outcome = "no_places" -> Found(<<>>, 1)
               [] OTHER ->
                    IF data.nextPageToken # NoPageToken /\ Len(businesses) < maxBusinesses
                    THEN IF nextPageResults.thrown THEN Threw(2)
                         ELSE Found(Take(businesses \o nextPageResults.businesses,
                                         maxBusinesses), 2)
                    ELSE Found(Take(businesses, maxBusinesses), 1)

----------------------------------------------------------------------------
(* What a handler leaves behind: the store, the job status writes it made   *)
(* (in order), the messages the provider accepted, and whether an exception *)
(* left it.                                                                 *)

Result(js, ps, disp, writes, sends, escaped) ==
    [jobs |-> js, prospects |-> ps, dispatched |-> disp, writes |-> writes,
     sends |-> sends, escaped |-> escaped]

\* the catch block of a stage handler: updateJobStatus(job.id, 'failed'), which
\* throws in its turn when cf
CatchMarkFailed(js, ps, disp, j, writes, sends, cf) ==
    IF cf
    THEN Result(js, ps, disp, writes, sends, TRUE)
    ELSE Result(updateJobStatus(js, j, "failed"), ps, disp, writes \o <<"failed">>,
                sends, FALSE)

----------------------------------------------------------------------------
(* cron/process/route.ts: handleProspecting                                 *)
(* f is the call that throws: 0 none, 1 updateJobStatus(prospecting),       *)
(* 2 getProspectsFromPlaces, 3 batchCreateProspects, 4 incrementJobStat     *)
(* found, 5 incrementJobStat withWebsite, 6 updateJobStatus(discovering).   *)

ProspectingFaultPoints(snap) == IF snap = "draft" THEN 0..6 ELSE {0} \cup 2..6

CountWithWebsite(data) == Cardinality({i \in 1..Len(data) : data[i].website # NoWebsite})

handleProspectingMutRevisit(js, ps, disp, j, snap, data, f, cf) ==
    Result(updateJobStatus(js, j, "draft"), ps, disp, <<"draft">>, <<>>, FALSE)

handleProspecting(js, ps, disp, j, snap, data, f, cf) ==
    LET js1 == IF snap = "draft" THEN updateJobStatus(js, j, "prospecting") ELSE js
        w1 == IF snap = "draft" THEN <<"prospecting">> ELSE <<>>
        ps3 == batchCreateProspects(ps, data)
        disp3 == disp \o [i \in 1..Len(data) |-> 0]
        js4 == incrementJobStat(js1, j, "found", Len(data))
        js5 == incrementJobStat(js4, j, "withWebsite", CountWithWebsite(data))
        js6 == updateJobStatus(js5, j, "discovering")
    IN  CASE f = 1 -> Result(js, ps, disp, <<>>, <<>>, TRUE)
          [] f = 2 -> CatchMarkFailed(js1, ps, disp, j, w1, <<>>, cf)
          [] f = 3 -> CatchMarkFailed(js1, ps, disp, j, w1, <<>>, cf)
          [] f = 4 -> CatchMarkFailed(js1, ps3, disp3, j, w1, <<>>, cf)
          [] f = 5 -> CatchMarkFailed(js4, ps3, disp3, j, w1, <<>>, cf)
          [] f = 6 -> CatchMarkFailed(js5, ps3, disp3, j, w1, <<>>, cf)
          [] OTHER -> Result(js6, ps3, disp3, w1 \o <<"discovering">>, <<>>, FALSE)

----------------------------------------------------------------------------
(* cron/process/route.ts: handleEmailDiscovery                              *)
(* f: 0 none, 1 getProspectsForJob, 2 updateJobStatus(sending) of the empty *)
(* batch, 3 batchDiscoverEmails, 4 incrementJobStat withEmail, 5 the        *)
(* remaining-count query, 6 the final updateJobStatus(sending), 10 + k the  *)
(* updateProspectStatus of the k-th result.                                 *)

\* the first n results of batchDiscoverEmails written with updateProspectStatus
ApplyDiscovery(ps, led, batch, n) ==
    [p \in 1..Len(ps) |->
        IF \E k \in 1..n : batch[k] = p
        THEN LET r == discoverEmailForProspect(led, ps[p].website)
             IN  updateProspectStatus(ps, p, r.status, r.discoveredEmail)[p]
        ELSE ps[p]]

emailFoundCount(ps, led, batch) ==
    Cardinality({n \in 1..Len(batch) :
        discoverEmailForProspect(led, ps[batch[n]].website).discoveredEmail # NoEmail})

DiscoveryFaultPoints(ps, j) ==
    LET n == Len(getProspectsForJob(ps, j, "found", EMAIL_DISCOVERY_BATCH_SIZE).prospects)
    IN  IF n = 0 THEN {0, 1, 2}
        ELSE {0, 1, 3, 4} \cup {10 + k : k \in 1..n}
             \cup (IF n < EMAIL_DISCOVERY_BATCH_SIZE THEN {5} ELSE {})
             \cup (IF n < EMAIL_DISCOVERY_BATCH_SIZE
                      /\ getProspectsForJob(ps, j, "found", 0).total = 0
                   THEN {6} ELSE {})

handleEmailDiscoveryMutAdvance(js, ps, disp, led, j, f, cf) ==
    Result(updateJobStatus(js, j, "sending"), ps, disp, <<"sending">>, <<>>, FALSE)

handleEmailDiscoveryMutCount(js, ps, disp, led, j, f, cf) ==
    Result(incrementJobStat(updateJobStatus(js, j, "sending"), j, "withEmail", 1), ps,
           disp, <<"sending">>, <<>>, FALSE)

handleEmailDiscovery(js, ps, disp, led, j, f, cf) ==
    LET batch == getProspectsForJob(ps, j, "found", EMAIL_DISCOVERY_BATCH_SIZE).prospects
        n == Len(batch)
        psAll == ApplyDiscovery(ps, led, batch, n)
        jsInc == incrementJobStat(js, j, "withEmail", emailFoundCount(ps, led, batch))
        remaining == getProspectsForJob(psAll, j, "found", 0)
    IN  IF f = 1 THEN CatchMarkFailed(js, ps, disp, j, <<>>, <<>>, cf)
        ELSE IF n = 0
        THEN IF f = 2
             THEN CatchMarkFailed(js, ps, disp, j, <<>>, <<>>, cf)
             ELSE Result(updateJobStatus(js, j, "sending"), ps, disp, <<"sending">>,
                         <<>>, FALSE)
        ELSE CASE f = 3 -> CatchMarkFailed(js, ps, disp, j, <<>>, <<>>, cf)
               [] f > 10 ->
                    CatchMarkFailed(js, ApplyDiscovery(ps, led, batch, f - 11), disp, j,
                                    <<>>, <<>>, cf)
               [] f = 4 -> CatchMarkFailed(js, psAll, disp, j, <<>>, <<>>, cf)
               [] f = 5 -> CatchMarkFailed(jsInc, psAll, disp, j, <<>>, <<>>, cf)
               [] f = 6 -> CatchMarkFailed(jsInc, psAll, disp, j, <<>>, <<>>, cf)
               [] OTHER ->
                    IF n < EMAIL_DISCOVERY_BATCH_SIZE /\ remaining.total = 0
                    THEN Result(updateJobStatus(jsInc, j, "sending"), psAll, disp,
                                <<"sending">>, <<>>, FALSE)
                    ELSE Result(jsInc, psAll, disp, <<>>, <<>>, FALSE)

----------------------------------------------------------------------------
(* services/sendgrid.ts: sendEmailToProspect and batchSendEmails            *)
(* The outcome of one call: what the provider answers and which of the      *)
(* record updates after it throws.                                          *)

SendOutcomes ==
    {"sent", "sent_update1_throws", "sent_update2_throws",
     "reject400", "reject400_update1_throws", "reject400_update2_throws",
     "rejectOther"}

\* HTTP status codes with which the provider rejects a message
RejectCodes == {400, 401, 403, 413, 429, 500, 503}

\* line 150: error?.response?.statusCode === 400 || error?.code === 400
isPermanentBounce(statusCode) == statusCode = 400

\* the outcome of a call the provider rejects with statusCode, the record updates
\* succeeding
RejectOutcome(statusCode) ==
    IF isPermanentBounce(statusCode) THEN "reject400" ELSE "rejectOther"

\* outcomes that are a failure of the store or a transient failure of the provider
FaultyOutcomes == SendOutcomes \ {"sent", "reject400"}

\* one call with `prospect` bound: lines 90-173
sendEmailToProspect(ps, disp, led, p, o) ==
    LET email == ps[p].discoveredEmail
        accepted == [disp EXCEPT ![p] = @ + 1]
        msg == <<[prospect |-> p, to |-> email, suppressed |-> isUnsubscribed(led, email)]>>
        psSent == updateProspectStatus(ps, p, "sent", email)
        psSentId == [psSent EXCEPT ![p].sendGridMessageId = MessageId(p, accepted[p]),
                                   ![p].sentAt = TRUE]
        psBounced == updateProspectStatus(ps, p, "bounced", email)
        psBouncedAt == [psBounced EXCEPT ![p].bouncedAt = TRUE,
                                         ![p].bounceReason = "Bad Request"]
        R(ps2, disp2, success, thrown, sends) ==
            [prospects |-> ps2, dispatched |-> disp2, success |-> success,
             thrown |-> thrown, sends |-> sends]
    IN  IF email = NoEmail THEN R(ps, disp, FALSE, FALSE, <<>>)
        ELSE CASE o = "sent" -> R(psSentId, accepted, TRUE, FALSE, msg)
               [] o = "sent_update1_throws" -> R(ps, accepted, FALSE, FALSE, msg)
               [] o = "sent_update2_throws" -> R(psSent, accepted, FALSE, FALSE, msg)
               [] o = "reject400" -> R(psBouncedAt, disp, FALSE, FALSE, <<>>)
               [] o = "reject400_update1_throws" -> R(ps, disp, FALSE, TRUE, <<>>)
               [] o = "reject400_update2_throws" -> R(psBounced, disp, FALSE, TRUE, <<>>)
               [] OTHER -> R(ps, disp, FALSE, FALSE, <<>>)

\* batchSendEmails over batch[i..]: acc carries the store and the counts so far.
\* With `prospect` unbound the first call raises ReferenceError at line 90.
RECURSIVE batchSendEmails(_, _, _, _, _, _)
batchSendEmails(acc, led, batch, i, oc, inScope) ==
    IF i > Len(batch) THEN acc
    ELSE IF ~inScope THEN [acc EXCEPT !.thrown = TRUE]
    ELSE LET r == sendEmailToProspect(acc.prospects, acc.dispatched, led, batch[i],
                                      oc[batch[i]])
             next == [prospects |-> r.prospects, dispatched |-> r.dispatched,
                      sent |-> acc.sent + (IF r.success THEN 1 ELSE 0),
                      failed |-> acc.failed + (IF r.success THEN 0 ELSE 1),
                      thrown |-> r.thrown, sends |-> acc.sends \o r.sends]
         IN  IF r.thrown THEN next
             ELSE batchSendEmails(next, led, batch, i + 1, oc, inScope)

BatchStart(ps, disp) ==
    [prospects |-> ps, dispatched |-> disp, sent |-> 0, failed |-> 0, thrown |-> FALSE,
     sends |-> <<>>]

\* the store or provider failures an outcome assignment stands for, up to the
\* call that aborts the batch
RECURSIVE OutcomeFaults(_, _, _)
OutcomeFaults(batch, i, oc) ==
    IF i > Len(batch) THEN 0
    ELSE IF oc[batch[i]] \in {"reject400_update1_throws", "reject400_update2_throws"}
         THEN 1
         ELSE (IF oc[batch[i]] \in FaultyOutcomes THEN 1 ELSE 0)
              + OutcomeFaults(batch, i + 1, oc)

----------------------------------------------------------------------------
(* cron/process/route.ts: handleSending                                     *)
(* f: 0 none, 1 getProspectsForSending, 2 updateJobStatus(completed),       *)
(* 3 incrementJobStat sent, 4 incrementJobStat bounced.                     *)

SendingFaultPoints(ps, j) ==
    IF Len(getProspectsForSending(ps, j, SENDING_BATCH_SIZE)) = 0
    THEN {0, 1, 2} ELSE {0, 1, 3, 4}

handleSendingMutComplete(js, ps, disp, led, j, oc, f, cf, inScope) ==
    Result(updateJobStatus(js, j, "completed"), ps, disp, <<"completed">>, <<>>, FALSE)

handleSendingMutFailEmpty(js, ps, disp, led, j, oc, f, cf, inScope) ==
    Result(updateJobStatus(js, j, "failed"), ps, disp, <<"failed">>, <<>>, FALSE)

handleSending(js, ps, disp, led, j, oc, f, cf, inScope) ==
    LET batch == getProspectsForSending(ps, j, SENDING_BATCH_SIZE)
        results == batchSendEmails(BatchStart(ps, disp), led, batch, 1, oc, inScope)
        jsSent == incrementJobStat(js, j, "sent", results.sent)
        jsBounced == incrementJobStat(jsSent, j, "bounced", results.failed)
    IN  IF f = 1 THEN CatchMarkFailed(js, ps, disp, j, <<>>, <<>>, cf)
        ELSE IF Len(batch) = 0
        THEN IF f = 2
             THEN CatchMarkFailed(js, ps, disp, j, <<>>, <<>>, cf)
             ELSE Result(updateJobStatus(js, j, "completed"), ps, disp, <<"completed">>,
                         <<>>, FALSE)
        ELSE IF results.thrown \/ f = 3
        THEN CatchMarkFailed(js, results.prospects, results.dispatched, j, <<>>,
                             results.sends, cf)
        ELSE IF f = 4
        THEN CatchMarkFailed(jsSent, results.prospects, results.dispatched, j, <<>>,
                             results.sends, cf)
        ELSE Result(jsBounced, results.prospects, results.dispatched, <<>>,
                    results.sends, FALSE)

----------------------------------------------------------------------------
(* Requests *)

\* the last request: which it was, the HTTP status answered, and what it did. For
\* a tick: the jobs it loaded, those whose processing raised an error, those it
\* never reached, its job status writes in order, and the count it reported. For
\* a tick or a manual send: the messages the provider accepted. For an
\* unsubscribe request: the case its token fell in. For a delivery event: the case
\* it fell in, its message id and, when it matched a prospect, its type, that
\* prospect and its email. For a run of the Business Finder: the cap it was
\* given, the provider it met and what it left.
Quiet ==
    [op |-> "init", status |-> 0, loaded |-> {}, erred |-> {}, unreached |-> {},
     writes |-> <<>>, processedJobs |-> 0, fetchFailed |-> FALSE, sends |-> <<>>,
     case |-> "",
     event |-> [type |-> "", prospect |-> 0, email |-> NoEmail, messageId |-> NoMessageId],
     search |-> [maxBusinesses |-> 0]]

Bit(b) == IF b THEN 1 ELSE 0
Seq2Set(s) == {s[i] : i \in 1..Len(s)}

Init ==
    /\ jobs = <<>>
    /\ prospects = <<>>
    /\ ledger = EmptyBag
    /\ faults = 0
    /\ dispatched = <<>>
    /\ prospectInScope \in BOOLEAN
    /\ last = Quiet
    /\ running = <<>>

(* jobs/route.ts POST: a valid request creates a job in draft; createJob may throw *)
CreateJob(maxJobs, sizes, budget) ==
    /\ Len(jobs) < maxJobs
    /\ \E maxBusinesses \in sizes, f \in {0, 1} :
        /\ faults + f <= budget
        /\ faults' = faults + f
        /\ IF f = 1
           THEN /\ jobs' = jobs
                /\ last' = [Quiet EXCEPT !.op = "create", !.status = 500]
           ELSE /\ jobs' = Append(jobs, NewJob(maxBusinesses))
                /\ last' = [Quiet EXCEPT !.op = "create", !.status = 201]
    /\ UNCHANGED <<prospects, ledger, dispatched, prospectInScope>>

\* what getProspectsFromPlaces may return for job j: at most maxBusinesses businesses
PlacesData(js, j, uris, room) ==
    LET cap == IF js[j].maxBusinesses <= room THEN js[j].maxBusinesses ELSE room
    IN  UNION {[1..n -> {ProspectData(j, u) : u \in uris}] : n \in 0..cap}

\* cron processJob, lines 79-96: the handler of the status the job was loaded
\* with, for every choice of what the provider returns and of the calls that
\* throw; nf counts those
processJob(js, ps, disp, led, j, snap, uris, left, inScope) ==
    IF snap \in {"draft", "prospecting"}
    THEN {[r |-> handleProspecting(js, ps, disp, j, snap, x[1], x[2], x[3]),
           nf |-> Bit(x[2] # 0) + Bit(x[3])] :
            x \in {y \in PlacesData(js, j, uris, MaxProspects - Len(ps))
                        \X ProspectingFaultPoints(snap) \X BOOLEAN :
                    /\ y[3] => y[2] > 1
                    /\ Bit(y[2] # 0) + Bit(y[3]) <= left}}
    ELSE IF snap = "discovering"
    THEN {[r |-> handleEmailDiscovery(js, ps, disp, led, j, x[1], x[2]),
           nf |-> Bit(x[1] # 0) + Bit(x[2])] :
            x \in {y \in DiscoveryFaultPoints(ps, j) \X BOOLEAN :
                    /\ y[2] => y[1] # 0
                    /\ Bit(y[1] # 0) + Bit(y[2]) <= left}}
    ELSE LET batch == getProspectsForSending(ps, j, SENDING_BATCH_SIZE)
             thrown(oc) ==
                batchSendEmails(BatchStart(ps, disp), led, batch, 1, oc, inScope).thrown
             cost(oc) == IF inScope THEN OutcomeFaults(batch, 1, oc) ELSE 0
         IN  {[r |-> handleSending(js, ps, disp, led, j, x[1], x[2], x[3], inScope),
               nf |-> cost(x[1]) + Bit(x[2] # 0) + Bit(x[3])] :
                x \in {y \in [Seq2Set(batch) -> SendOutcomes]
                            \X SendingFaultPoints(ps, j) \X BOOLEAN :
                        /\ (y[2] > 1 => ~thrown(y[1]))
                        /\ (y[3] => (y[2] # 0 \/ thrown(y[1])))
                        /\ cost(y[1]) + Bit(y[2] # 0) + Bit(y[3]) <= left}}

\* the store and the tick's record before the loop over activeJobs
LoopStart(js, ps, disp, nf, active) ==
    [jobs |-> js, prospects |-> ps, dispatched |-> disp, nf |-> nf,
     loaded |-> {active[i].id : i \in 1..Len(active)}, erred |-> {}, unreached |-> {},
     writes |-> <<>>, sends |-> <<>>, aborted |-> FALSE]

\* the status writes of one job as entries of the tick's record
RECURSIVE WriteLog(_, _, _)
WriteLog(j, from, writes) ==
    IF writes = <<>> THEN <<>>
    ELSE <<[job |-> j, from |-> from, to |-> Head(writes)]>>
         \o WriteLog(j, Head(writes), Tail(writes))

\* cron GET, lines 53-61: one iteration of the loop for job j loaded with status
\* `from`, given what processJob may leave (`results`), for every choice of
\* failures; gf: the updateJobStatus of line 59 throws, which ends the tick in the
\* outer catch
LoopBodyOf(st, j, results, budget) ==
    {LET r == x[1].r
         raised == r.escaped \/ (r.writes # <<>> /\ r.writes[Len(r.writes)] = "failed")
         marked == r.escaped /\ ~x[2]
         writes == IF marked THEN r.writes \o <<"failed">> ELSE r.writes
     IN  [st EXCEPT !.jobs = IF marked THEN updateJobStatus(r.jobs, j, "failed")
                             ELSE r.jobs,
                    !.prospects = r.prospects,
                    !.dispatched = r.dispatched,
                    !.nf = @ + x[1].nf + Bit(x[2]),
                    !.erred = IF raised THEN @ \cup {j} ELSE @,
                    !.writes = @ \o WriteLog(j, st.jobs[j].status, writes),
                    !.sends = @ \o r.sends,
                    !.aborted = x[2]] :
        x \in {y \in results \X BOOLEAN :
                /\ y[2] => y[1].r.escaped
                /\ st.nf + y[1].nf + Bit(y[2]) <= budget}}

LoopBody(st, led, snapshot, uris, budget, inScope) ==
    LoopBodyOf(st, snapshot.id,
               processJob(st.jobs, st.prospects, st.dispatched, led, snapshot.id,
                          snapshot.status, uris, budget - st.nf, inScope),
               budget)

\* cron GET, lines 52-61: the loop over activeJobs from the i-th on
RECURSIVE Loop(_, _, _, _, _, _, _)
Loop(st, led, active, i, uris, budget, inScope) ==
    IF i > Len(active) THEN {st}
    ELSE IF st.aborted
    THEN {[st EXCEPT !.unreached = {active[k].id : k \in i..Len(active)}]}
    ELSE UNION {Loop(st2, led, active, i + 1, uris, budget, inScope) :
                    st2 \in LoopBody(st, led, active[i], uris, budget, inScope)}

(* cron GET, lines 38-74: one invocation of the scheduler tick; f: getAllJobs throws *)
Tick(uris, budget) ==
    \E f \in {0, 1} :
        /\ faults + f <= budget
        /\ IF f = 1
           THEN /\ faults' = faults + 1
                /\ last' = [Quiet EXCEPT !.op = "tick", !.status = 500,
                                         !.fetchFailed = TRUE]
                /\ UNCHANGED <<jobs, prospects, dispatched>>
           ELSE \E active \in {ActiveSnapshots(jobs, getAllJobs(jobs, GET_ALL_JOBS_LIMIT), 1)} :
                    \E st \in Loop(LoopStart(jobs, prospects, dispatched, faults, active),
                                   ledger, active, 1, uris, budget, prospectInScope) :
                        /\ jobs' = st.jobs
                        /\ prospects' = st.prospects
                        /\ dispatched' = st.dispatched
                        /\ faults' = st.nf
                        /\ last' = [Quiet EXCEPT
                                        !.op = "tick",
                                        !.status = IF st.aborted THEN 500 ELSE 200,
                                        !.loaded = st.loaded,
                                        !.erred = st.erred,
                                        !.unreached = st.unreached,
                                        !.writes = st.writes,
                                        !.sends = st.sends,
                                        !.processedJobs = IF st.aborted THEN 0
                                                          ELSE Len(active)]
        /\ UNCHANGED <<ledger, prospectInScope>>

(* prospects/route.ts POST (manual send), lines 86-167                       *)
(* f: 0 none, 1 getJob throws, 2 getProspectsForSending throws               *)
ManualSendMutAnyStatus(j, budget) ==
    \E f \in {0, 1, 2} :
        LET exists == j \in 1..Len(jobs)
            batch == getProspectsForSending(prospects, j, MANUAL_SEND_BATCH_SIZE)
            Answer(status) == [Quiet EXCEPT !.op = "send", !.status = status]
        IN  IF f = 1 \/ ~exists \/ f = 2 \/ Len(batch) = 0
            THEN /\ faults + Bit(f # 0) <= budget
                 /\ f = 2 => exists
                 /\ faults' = faults + Bit(f # 0)
                 /\ last' = Answer(IF f = 1 THEN 500
                                   ELSE IF ~exists THEN 404
                                   ELSE IF f = 2 THEN 500 ELSE 200)
                 /\ UNCHANGED <<jobs, prospects, ledger, dispatched, prospectInScope>>
            ELSE \E oc \in [Seq2Set(batch) -> SendOutcomes] :
                    LET results == batchSendEmails(BatchStart(prospects, dispatched),
                                                   ledger, batch, 1, oc, prospectInScope)
                        nf == IF prospectInScope THEN OutcomeFaults(batch, 1, oc) ELSE 0
                    IN  /\ faults + nf <= budget
                        /\ faults' = faults + nf
                        /\ prospects' = results.prospects
                        /\ dispatched' = results.dispatched
                        /\ last' = [Answer(IF results.thrown THEN 500 ELSE 200)
                                        EXCEPT !.sends = results.sends]
                        /\ UNCHANGED <<jobs, ledger, prospectInScope>>

ManualSend(j, budget) ==
    \E f \in {0, 1, 2} :
        LET exists == j \in 1..Len(jobs)
            batch == getProspectsForSending(prospects, j, MANUAL_SEND_BATCH_SIZE)
            Answer(status) == [Quiet EXCEPT !.op = "send", !.status = status]
        IN  IF f = 1 \/ ~exists \/ jobs[j].status # "sending" \/ f = 2 \/ Len(batch) = 0
            THEN /\ faults + Bit(f # 0) <= budget
                 /\ f = 2 => (exists /\ jobs[j].status = "sending")
                 /\ faults' = faults + Bit(f # 0)
                 /\ last' = Answer(IF f = 1 THEN 500
                                   ELSE IF ~exists THEN 404
                                   ELSE IF jobs[j].status # "sending" THEN 400
                                   ELSE IF f = 2 THEN 500 ELSE 200)
                 /\ UNCHANGED <<jobs, prospects, ledger, dispatched, prospectInScope>>
            ELSE \E oc \in [Seq2Set(batch) -> SendOutcomes] :
                    LET results == batchSendEmails(BatchStart(prospects, dispatched),
                                                   ledger, batch, 1, oc, prospectInScope)
                        nf == IF prospectInScope THEN OutcomeFaults(batch, 1, oc) ELSE 0
                    IN  /\ faults + nf <= budget
                        /\ faults' = faults + nf
                        /\ prospects' = results.prospects
                        /\ dispatched' = results.dispatched
                        /\ last' = [Answer(IF results.thrown THEN 500 ELSE 200)
                                        EXCEPT !.sends = results.sends]
                        /\ UNCHANGED <<jobs, ledger, prospectInScope>>

(* prospects/route.ts GET (unsubscribe), lines 179-229                       *)
(* The token decodes to prospectId p (0: none) and email (NoEmail: none).    *)
(* f: 0 none, 1 the prospect read throws, 2 addUnsubscribe throws,           *)
(* 3 the prospect update throws.                                             *)

\* the case the token falls in: lines 187, 196 and 205
TokenCase(ps, p, email) ==
    IF p = 0 \/ email = NoEmail THEN "malformed"
    ELSE IF p \notin 1..Len(ps) THEN "unknown"
    ELSE IF ps[p].discoveredEmail # email THEN "mismatch"
    ELSE "match"

UnsubscribeStopsMutNoCompare(case, f) == case = "malformed" \/ f = 1 \/ f = 2

\* the request ends before anything is written
UnsubscribeStops(case, f) == case \in {"malformed", "mismatch"} \/ f = 1 \/ f = 2

\* the request, with the store holding at most maxLedger unsubscribe documents
UnsubscribeLinkUpTo(p, email, budget, maxLedger) ==
    \E f \in 0..3 :
        LET case == TokenCase(prospects, p, email)
            jobId == IF case = "unknown" THEN 0 ELSE prospects[p].jobId
            Answer(status) ==
                [Quiet EXCEPT !.op = "unsubscribe", !.status = status, !.case = case]
        IN  /\ faults + Bit(f # 0) <= budget
            /\ faults' = faults + Bit(f # 0)
            /\ f # 0 => case # "malformed"
            /\ f = 2 => case # "mismatch"
            /\ f = 3 => case = "match"
            /\ IF UnsubscribeStops(case, f)
               THEN /\ last' = Answer(IF case = "malformed" THEN 400
                                      ELSE IF f = 1 THEN 500
                                      ELSE IF case = "mismatch" THEN 400 ELSE 500)
                    /\ UNCHANGED <<ledger, prospects>>
               ELSE /\ BagCardinality(ledger) < maxLedger
                    /\ ledger' = addUnsubscribe(ledger, email, jobId)
                    /\ IF case # "unknown" /\ f = 0
                       THEN prospects' = [prospects EXCEPT ![p].status = "unsubscribed",
                                                          ![p].unsubscribedAt = TRUE]
                       ELSE prospects' = prospects
                    /\ last' = Answer(IF case = "unknown" \/ f = 0 THEN 200 ELSE 500)
            /\ UNCHANGED <<jobs, dispatched, prospectInScope>>

UnsubscribeLink(p, email, budget) == UnsubscribeLinkUpTo(p, email, budget, MaxLedger)

(* services/sendgrid.ts handleSendGridEvent, lines 226-289                  *)
(* The event carries a type, an email (NoEmail: none), an sg_message_id     *)
(* (NoSgId: none) and a reason ("": none).                                  *)
(* f: 0 none, 1 the prospect query throws, 2, 3, 4 the first, second, third *)
(* store write of the event's branch throws.                                *)

WebhookEvents == {"bounce", "dropped", "unsubscribe", "delivered", "open"}
Reasons == {"", "550 mailbox unavailable"}

\* sg_message_id "message-id.pid.user-id" as its part before the first dot and
\* the rest
SgId(messageId) == [head |-> messageId, rest |-> "filter0001.1"]
NoSgId == [head |-> NoMessageId, rest |-> ""]

\* sg_message_id?.split('.')[0]
SplitHead(sg) == sg.head

\* a message id no prospect can have
UnknownMessageId == <<0, 0>>

FindByMessageIdMutFirst(ps, messageId) == IF Len(ps) > 0 THEN 1 ELSE 0

\* the prospect the query where sendGridMessageId == messageId, limit 1 returns
\* (0: none)
FindByMessageId(ps, messageId) ==
    IF \E p \in 1..Len(ps) : ps[p].sendGridMessageId = messageId
    THEN CHOOSE p \in 1..Len(ps) :
            /\ ps[p].sendGridMessageId = messageId
            /\ \A q \in 1..(p - 1) : ps[q].sendGridMessageId # messageId
    ELSE 0

\* the sg_message_id values an event may carry in a given store
EventSgIds(ps) ==
    {NoSgId, SgId(UnknownMessageId)}
    \cup {SgId(ps[p].sendGridMessageId) :
            p \in {q \in 1..Len(ps) : ps[q].sendGridMessageId # NoMessageId}}

handleSendGridEventMutCount(type, email, sg, reason, budget) ==
    /\ Len(jobs) >= 1
    /\ jobs' = incrementJobStat(jobs, 1, IF type = "unsubscribe" THEN "unsubscribed"
                                         ELSE "bounced", 1)
    /\ last' = [Quiet EXCEPT !.op = "event"]
    /\ UNCHANGED <<prospects, ledger, faults, dispatched, prospectInScope>>

handleSendGridEvent(type, email, sg, reason, budget) ==
    \E f \in 0..4 :
        LET messageId == SplitHead(sg)
            ignored == messageId = NoMessageId \/ email = NoEmail
            p == IF ignored THEN 0 ELSE FindByMessageId(prospects, messageId)
            writes == IF ignored \/ (f # 1 /\ p = 0) THEN 0
                      ELSE IF type \in {"bounce", "dropped"} THEN 2
                      ELSE IF type = "unsubscribe" THEN 3 ELSE 0
            Answer(case) ==
                [Quiet EXCEPT !.op = "event", !.case = case,
                              !.event = IF case = "matched"
                                        THEN [type |-> type, prospect |-> p,
                                              email |-> email, messageId |-> messageId]
                                        ELSE IF case = "unknown"
                                        THEN [Quiet.event EXCEPT !.messageId = messageId]
                                        ELSE Quiet.event]
            psBounced == updateProspectStatus(prospects, p, "bounced", email)
            psBouncedAt ==
                [psBounced EXCEPT ![p].bouncedAt = TRUE,
                                  ![p].bounceReason = IF reason # "" THEN reason ELSE type]
            psUnsub == updateProspectStatus(prospects, p, "unsubscribed", email)
            psUnsubAt == [psUnsub EXCEPT ![p].unsubscribedAt = TRUE]
        IN  /\ faults + Bit(f # 0) <= budget
            /\ faults' = faults + Bit(f # 0)
            /\ f = 1 => ~ignored
            /\ f > 1 => f - 1 <= writes
            /\ IF ignored THEN last' = Answer("ignored") /\ UNCHANGED <<prospects, ledger>>
               ELSE IF f = 1 THEN last' = Answer("thrown") /\ UNCHANGED <<prospects, ledger>>
               ELSE IF p = 0 THEN last' = Answer("unknown") /\ UNCHANGED <<prospects, ledger>>
               ELSE /\ last' = Answer(IF f = 0 THEN "matched" ELSE "thrown")
                    /\ IF type \in {"bounce", "dropped"}
                       THEN /\ prospects' = CASE f = 2 -> prospects
                                               [] f = 3 -> psBounced
                                               [] OTHER -> psBouncedAt
                            /\ ledger' = ledger
                       ELSE IF type = "unsubscribe"
                       THEN /\ f # 2 => BagCardinality(ledger) < MaxLedger
                            /\ ledger' = IF f = 2 THEN ledger
                                          ELSE addUnsubscribe(ledger, email, prospects[p].jobId)
                            /\ prospects' = CASE f \in {2, 3} -> prospects
                                               [] f = 4 -> psUnsub
                                               [] OTHER -> psUnsubAt
                       ELSE UNCHANGED <<prospects, ledger>>
            /\ UNCHANGED <<jobs, dispatched, prospectInScope>>

(* jobs/[jobId]/status/route.ts PATCH, lines 13-59                          *)
(* The body carries a status and, optionally, stats: some of the counters   *)
(* with the values to store. f: updateJobStatus throws.                     *)

NoStats == [k \in {} |-> 0]

\* firestore.ts updateJobStatus with stats given: each given counter is overwritten
updateJobStatusStats(js, j, status, stats) ==
    IF stats = NoStats THEN updateJobStatus(js, j, status)
    ELSE [js EXCEPT ![j].status = status,
                    ![j].stats = [k \in DOMAIN @ |->
                                    IF k \in DOMAIN stats THEN stats[k] ELSE @[k]]]

PatchStatus(j, status, stats, budget) ==
    \E f \in {0, 1} :
        LET Answer(code) == [Quiet EXCEPT !.op = "patch", !.status = code]
        IN  /\ faults + f <= budget
            /\ faults' = faults + f
            /\ f = 1 => status \in JobStatuses
            /\ IF status \notin JobStatuses
               THEN last' = Answer(400) /\ jobs' = jobs
               ELSE IF f = 1 \/ j \notin 1..Len(jobs)
               THEN last' = Answer(500) /\ jobs' = jobs
               ELSE /\ last' = Answer(200)
                    /\ jobs' = updateJobStatusStats(jobs, j, status, stats)
            /\ UNCHANGED <<prospects, ledger, dispatched, prospectInScope>>

(* services/places.ts searchBusinesses, as the prospecting handler calls it *)
(* (cron route.ts lines 112-118)                                            *)
SearchBusinesses(maxBusinesses, world) ==
    /\ last' = [Quiet EXCEPT !.op = "search",
                             !.search = [maxBusinesses |-> maxBusinesses,
                                         world |-> world,
                                         result |-> searchBusinesses(world, maxBusinesses)]]
    /\ UNCHANGED <<jobs, prospects, ledger, faults, dispatched, prospectInScope>>

----------------------------------------------------------------------------
(* A discovery handler of a tick that overlaps other requests: the handler  *)
(* from its start to the return of batchDiscoverEmails (lines 142-164), and *)
(* from there to its end (lines 166-192).                                   *)

\* emailDiscovery batchDiscoverEmails
batchDiscoverEmails(led, ps, batch) ==
    [n \in 1..Len(batch) |->
        LET result == discoverEmailForProspect(led, ps[batch[n]].website)
        IN  [prospectId |-> batch[n], discoveredEmail |-> result.discoveredEmail,
             status |-> result.status]]

\* handleEmailDiscovery, lines 170-178: the first n results written
RECURSIVE WriteResults(_, _, _)
WriteResults(ps, results, n) ==
    IF n = 0 THEN ps
    ELSE updateProspectStatus(WriteResults(ps, results, n - 1), results[n].prospectId,
                              results[n].status, results[n].discoveredEmail)

DiscoveryBegin(j, maxRunning) ==
    /\ Len(running) < maxRunning
    /\ j \in 1..Len(jobs)
    /\ jobs[j].status = "discovering"
    /\ LET batch == getProspectsForJob(prospects, j, "found",
                                       EMAIL_DISCOVERY_BATCH_SIZE).prospects
       IN  /\ batch # <<>>
           /\ running' = Append(running,
                    [job |-> j, results |-> batchDiscoverEmails(ledger, prospects, batch)])
    /\ UNCHANGED <<jobs, prospects, ledger, faults, dispatched, prospectInScope, last>>

DiscoveryFinish(k) ==
    /\ k \in 1..Len(running)
    /\ LET j == running[k].job
           results == running[k].results
           psAll == WriteResults(prospects, results, Len(results))
           emailFound == Cardinality({n \in 1..Len(results) :
                                        results[n].discoveredEmail # NoEmail})
           jsInc == incrementJobStat(jobs, j, "withEmail", emailFound)
           remaining == getProspectsForJob(psAll, j, "found", 0)
           advance == Len(results) < EMAIL_DISCOVERY_BATCH_SIZE /\ remaining.total = 0
       IN  /\ prospects' = psAll
           /\ jobs' = IF advance THEN updateJobStatus(jsInc, j, "sending") ELSE jsInc
           /\ last' = [Quiet EXCEPT
                            !.op = "tick", !.status = 200, !.loaded = {j},
                            !.processedJobs = 1,
                            !.writes = IF advance
                                       THEN WriteLog(j, jobs[j].status, <<"sending">>)
                                       ELSE <<>>]
    /\ running' = [i \in 1..(Len(running) - 1) |->
                        IF i < k THEN running[i] ELSE running[i + 1]]
    /\ UNCHANGED <<ledger, faults, dispatched, prospectInScope>>

----------------------------------------------------------------------------
(* A tick that overlaps other requests: from the load of the active jobs    *)
(* (cron route.ts lines 41-46) to the handler of the job it loaded, which   *)
(* runs on the status the job was loaded with (lines 53-61, 82-96).         *)

TickBegin(j, maxRunning) ==
    /\ Len(running) < maxRunning
    /\ j \in 1..Len(jobs)
    /\ jobs[j].status \in ActiveStatuses
    /\ running' = Append(running, [id |-> j, status |-> jobs[j].status])
    /\ UNCHANGED <<jobs, prospects, ledger, faults, dispatched, prospectInScope, last>>

TickFinish(k, uris) ==
    /\ k \in 1..Len(running)
    /\ \E st \in LoopBody(LoopStart(jobs, prospects, dispatched, faults, <<running[k]>>),
                           ledger, running[k], uris, faults, prospectInScope) :
            /\ jobs' = st.jobs
            /\ prospects' = st.prospects
            /\ dispatched' = st.dispatched
            /\ last' = [Quiet EXCEPT !.op = "tick", !.status = 200,
                                     !.loaded = st.loaded, !.erred = st.erred,
                                     !.writes = st.writes, !.sends = st.sends,
                                     !.processedJobs = 1]
    /\ running' = [i \in 1..(Len(running) - 1) |->
                        IF i < k THEN running[i] ELSE running[i + 1]]
    /\ UNCHANGED <<ledger, faults, prospectInScope>>

(* A tick whose invocation ends inside handleProspecting, with no exception *)
(* raised: after updateJobStatus(prospecting), line 104 (point 1), or after *)
(* batchCreateProspects, line 118 (point 2).                                *)
ProspectingStops(j, point, uris) ==
    /\ j \in 1..Len(jobs)
    /\ jobs[j].status \in {"draft", "prospecting"}
    /\ \E data \in PlacesData(jobs, j, uris, MaxProspects - Len(prospects)) :
            LET snap == jobs[j].status
                js1 == IF snap = "draft" THEN updateJobStatus(jobs, j, "prospecting")
                       ELSE jobs
                w1 == IF snap = "draft" THEN <<"prospecting">> ELSE <<>>
            IN  /\ jobs' = js1
                /\ prospects' = IF point = 2 THEN batchCreateProspects(prospects, data)
                                 ELSE prospects
                /\ dispatched' = IF point = 2
                                  THEN dispatched \o [i \in 1..Len(data) |-> 0]
                                  ELSE dispatched
                /\ last' = [Quiet EXCEPT !.op = "tick", !.loaded = {j},
                                         !.writes = WriteLog(j, snap, w1)]
    /\ UNCHANGED <<ledger, faults, prospectInScope>>

----------------------------------------------------------------------------
(* A sending handler step by step: handleSending up to the call of          *)
(* batchSendEmails (cron route.ts 203-225), the loop of batchSendEmails     *)
(* (sendgrid.ts 198-217) with, for each prospect, the call of               *)
(* sendEmailToProspect, its return and the end of the setTimeout of 100 ms, *)
(* and the rest of handleSending (229-242).                                 *)
(* A run holds the batch, the number of calls started, the indices whose    *)
(* call has returned, those whose delay has elapsed, and the counts.        *)

\* the calls of the run that have started and not returned
InFlight(run) == {i \in 1..run.started : i \notin run.returned}

Without(s, k) == [i \in 1..(Len(s) - 1) |-> IF i < k THEN s[i] ELSE s[i + 1]]

SendingBegin(j, maxRunning) ==
    /\ Len(running) < maxRunning
    /\ j \in 1..Len(jobs)
    /\ jobs[j].status = "sending"
    /\ LET batch == getProspectsForSending(prospects, j, SENDING_BATCH_SIZE)
       IN  /\ batch # <<>>
           /\ running' = Append(running,
                    [job |-> j, batch |-> batch, started |-> 0, returned |-> {},
                     waited |-> {}, sent |-> 0, failed |-> 0, sends |-> <<>>])
    /\ UNCHANGED <<jobs, prospects, ledger, faults, dispatched, prospectInScope, last>>

SendStartMutAll(k) ==
    /\ k \in 1..Len(running)
    /\ prospectInScope
    /\ running[k].started < Len(running[k].batch)
    /\ running' = [running EXCEPT ![k].started = @ + 1]
    /\ UNCHANGED <<jobs, prospects, ledger, faults, dispatched, prospectInScope, last>>

\* the loop reaches `await sendEmailToProspect(...)` for the next prospect: the
\* awaits of the previous iteration are over
SendStart(k) ==
    /\ k \in 1..Len(running)
    /\ prospectInScope
    /\ running[k].started < Len(running[k].batch)
    /\ running[k].started > 0 =>
            /\ running[k].started \in running[k].returned
            /\ running[k].started \in running[k].waited
    /\ running' = [running EXCEPT ![k].started = @ + 1]
    /\ UNCHANGED <<jobs, prospects, ledger, faults, dispatched, prospectInScope, last>>

\* sendEmailToProspect returns for a call in flight
SendReturn(k, o, budget) ==
    /\ k \in 1..Len(running)
    /\ faults + Bit(o \in FaultyOutcomes) <= budget
    /\ faults' = faults + Bit(o \in FaultyOutcomes)
    /\ \E i \in InFlight(running[k]) :
            LET r == sendEmailToProspect(prospects, dispatched, ledger,
                                         running[k].batch[i], o)
            IN  /\ prospects' = r.prospects
                /\ dispatched' = r.dispatched
                /\ running' = [running EXCEPT
                                    ![k].returned = @ \cup {i},
                                    ![k].sent = @ + Bit(r.success),
                                    ![k].failed = @ + Bit(~r.success),
                                    ![k].sends = @ \o r.sends]
    /\ UNCHANGED <<jobs, ledger, prospectInScope, last>>

\* the timer of line 216 fires
DelayElapsed(k) ==
    /\ k \in 1..Len(running)
    /\ \E i \in running[k].returned \ running[k].waited :
            running' = [running EXCEPT ![k].waited = @ \cup {i}]
    /\ UNCHANGED <<jobs, prospects, ledger, faults, dispatched, prospectInScope, last>>

\* batchSendEmails returns and handleSending updates the stats
SendingEnd(k) ==
    /\ k \in 1..Len(running)
    /\ running[k].waited = 1..Len(running[k].batch)
    /\ LET j == running[k].job
           jsSent == incrementJobStat(jobs, j, "sent", running[k].sent)
       IN  /\ jobs' = incrementJobStat(jsSent, j, "bounced", running[k].failed)
           /\ last' = [Quiet EXCEPT !.op = "tick", !.status = 200, !.loaded = {j},
                                    !.processedJobs = 1, !.sends = running[k].sends]
    /\ running' = Without(running, k)
    /\ UNCHANGED <<prospects, ledger, faults, dispatched, prospectInScope>>

\* the first call raises ReferenceError at sendgrid.ts:90 and the handler's catch
\* marks the job failed
SendingThrows(k) ==
    /\ k \in 1..Len(running)
    /\ ~prospectInScope
    /\ LET j == running[k].job
       IN  /\ jobs' = updateJobStatus(jobs, j, "failed")
           /\ last' = [Quiet EXCEPT !.op = "tick", !.status = 200, !.loaded = {j},
                                    !.erred = {j}, !.processedJobs = 1,
                                    !.writes = WriteLog(j, jobs[j].status, <<"failed">>)]
    /\ running' = Without(running, k)
    /\ UNCHANGED <<prospects, ledger, faults, dispatched, prospectInScope>>

----------------------------------------------------------------------------
(* Specifications *)

\* one job under every kind of request
Create == CreateJob(1, 1..MaxBusinesses, MaxFaults) /\ UNCHANGED running
Cron == Tick(PlaceUris, MaxFaults) /\ UNCHANGED running
Send == (\E j \in {1, 2} : ManualSend(j, MaxFaults)) /\ UNCHANGED running
Unsubscribe ==
    /\ \E p \in 0..(MaxProspects + 1), email \in ExternalEmails \cup {NoEmail} :
            UnsubscribeLink(p, email, MaxFaults)
    /\ UNCHANGED running

Next == Create \/ Cron \/ Send \/ Unsubscribe

Spec == Init /\ [][Next]_vars

\* several jobs under the scheduler alone
EngineUris == {NoWebsite, [scheme |-> "http", host |-> "foo.com", path |-> ""]}
CreateJobs == CreateJob(MaxJobs, 1..MaxBusinesses, MaxTickFaults) /\ UNCHANGED running
CronJobs == Tick(EngineUris, MaxTickFaults) /\ UNCHANGED running
NextJobs == CreateJobs \/ CronJobs
SpecJobs == Init /\ [][NextJobs]_vars

\* many jobs, created in one burst before the first tick, under a scheduler whose
\* provider finds no business and whose calls never fail
CreateMany ==
    /\ last.op \in {"init", "create"}
    /\ CreateJob(MaxManyJobs, {1}, 0)
    /\ UNCHANGED running
CronMany == Tick({}, 0) /\ UNCHANGED running
NextMany == CreateMany \/ CronMany
SpecMany == Init /\ [][NextMany]_vars
FairSpecMany == SpecMany /\ WF_vars(CronMany)

\* jobs for which the provider finds no business, or only businesses without a
\* website, under a scheduler whose calls never fail
NoSiteUris == {NoWebsite}
CreateNoSites == CreateJob(MaxJobs, 1..MaxBusinesses, 0) /\ UNCHANGED running
CronNoSites == Tick(NoSiteUris, 0) /\ UNCHANGED running
NextNoSites == CreateNoSites \/ CronNoSites
SpecNoSites == Init /\ [][NextNoSites]_vars
FairSpecNoSites == SpecNoSites /\ WF_vars(CronNoSites)

\* one job whose discovery handlers may overlap each other, further ticks and
\* unsubscribe requests; no call fails
CreateOverlap == CreateJob(1, 1..MaxBusinesses, 0) /\ UNCHANGED running
CronOverlap == Tick(EngineUris, 0) /\ UNCHANGED running
UnsubscribeOverlap ==
    /\ \E p \in 0..(MaxProspects + 1), email \in ExternalEmails \cup {NoEmail} :
            UnsubscribeLink(p, email, 0)
    /\ UNCHANGED running
BeginOverlap == \E j \in 1..MaxJobs : DiscoveryBegin(j, MaxRunning)
FinishOverlap == \E k \in 1..MaxRunning : DiscoveryFinish(k)
NextOverlap ==
    CreateOverlap \/ CronOverlap \/ UnsubscribeOverlap \/ BeginOverlap \/ FinishOverlap
SpecOverlap == Init /\ [][NextOverlap]_vars

\* one job under the scheduler and status-update requests
PatchStats == {NoStats, [sent |-> 0], [bounced |-> -1]}
CreateOps == CreateJob(1, 1..MaxBusinesses, MaxFaults) /\ UNCHANGED running
CronOps == Tick(EngineUris, MaxFaults) /\ UNCHANGED running
PatchOps ==
    /\ \E j \in {1, 2}, status \in JobStatuses \cup {"paused"}, stats \in PatchStats :
            PatchStatus(j, status, stats, MaxFaults)
    /\ UNCHANGED running
NextOps == CreateOps \/ CronOps \/ PatchOps
SpecOps == Init /\ [][NextOps]_vars

\* one job under ticks, manual sends, unsubscribe requests and delivery events;
\* no call fails
EventEmails == {[local |-> "info", domain |-> "foo.com"], NoEmail}
CreateEvents == CreateJob(1, 1..MaxBusinesses, 0) /\ UNCHANGED running
CronEvents == Tick(EngineUris, 0) /\ UNCHANGED running
SendEvents == (\E j \in {1, 2} : ManualSend(j, 0)) /\ UNCHANGED running
UnsubscribeEvents ==
    /\ \E p \in 0..(MaxProspects + 1), email \in ExternalEmails \cup {NoEmail} :
            UnsubscribeLink(p, email, 0)
    /\ UNCHANGED running
Event ==
    /\ \E type \in WebhookEvents, email \in EventEmails, sg \in EventSgIds(prospects),
          reason \in Reasons :
            handleSendGridEvent(type, email, sg, reason, 0)
    /\ UNCHANGED running
NextEvents == CreateEvents \/ CronEvents \/ SendEvents \/ UnsubscribeEvents \/ Event
SpecEvents == Init /\ [][NextEvents]_vars

\* one job under ticks and unsubscribe requests that may name the same address or
\* the same domain again; no call fails
LedgerEmails == ExternalEmails \cup {[local |-> "info", domain |-> "bar.com"]}
CreateLedger == CreateJob(1, 1..MaxBusinesses, 0) /\ UNCHANGED running
CronLedger == Tick(EngineUris, 0) /\ UNCHANGED running
UnsubscribeLedger ==
    /\ \E p \in 0..(MaxProspects + 1), email \in LedgerEmails \cup {NoEmail} :
            UnsubscribeLinkUpTo(p, email, 0, MaxRecords)
    /\ UNCHANGED running
NextLedger == CreateLedger \/ CronLedger \/ UnsubscribeLedger
SpecLedger == Init /\ [][NextLedger]_vars

\* one job under ticks that may overlap each other or end inside the prospecting
\* handler, and an operator who sets the job to failed while it is active; no
\* call fails
CreateRace == CreateJob(1, 1..MaxBusinesses, 0) /\ UNCHANGED running
CronRace == Tick(EngineUris, 0) /\ UNCHANGED running
BeginRace == \E j \in 1..MaxJobs : TickBegin(j, MaxRunning)
FinishRace == \E k \in 1..MaxRunning : TickFinish(k, EngineUris)
StopRace ==
    /\ \E j \in 1..Len(jobs) : jobs[j].status \in ActiveStatuses
                                 /\ PatchStatus(j, "failed", NoStats, 0)
    /\ UNCHANGED running
CrashRace ==
    /\ \E j \in 1..MaxJobs, point \in {1, 2} : ProspectingStops(j, point, EngineUris)
    /\ UNCHANGED running
NextRace == CreateRace \/ CronRace \/ BeginRace \/ FinishRace \/ StopRace \/ CrashRace
SpecRace == Init /\ [][NextRace]_vars

\* one job whose sending handler runs step by step, one handler at a time, between
\* ticks; the only failures are those of the provider on a send
BatchOutcomes == {"sent", "reject400", "rejectOther"}
CreateBatch == CreateJob(1, 1..MaxBusinesses, faults) /\ UNCHANGED running
CronBatch == running = <<>> /\ Tick(EngineUris, faults) /\ UNCHANGED running
BeginBatch == \E j \in 1..MaxJobs : SendingBegin(j, 1)
StartBatch == \E k \in 1..MaxRunning : SendStart(k)
ReturnBatch == \E k \in 1..MaxRunning, o \in BatchOutcomes : SendReturn(k, o, MaxFaults)
DelayBatch == \E k \in 1..MaxRunning : DelayElapsed(k)
EndBatch == \E k \in 1..MaxRunning : SendingEnd(k)
ThrowsBatch == \E k \in 1..MaxRunning : SendingThrows(k)
NextBatch ==
    \/ CreateBatch \/ CronBatch \/ BeginBatch \/ StartBatch \/ ReturnBatch
    \/ DelayBatch \/ EndBatch \/ ThrowsBatch
SpecBatch == Init /\ [][NextBatch]_vars

\* one run of the Business Finder against every provider of the bounds
SearchCaps == {1, 20, 25, 50}
Worlds ==
    {w \in [geocode : GeoOutcomes, total : {0, 20, 45, 60}, cap : {10, PLACES_PAGE_SIZE},
            pages : [1..MaxPages -> PageOutcomes]] :
        w.total <= w.cap * MaxPages}
Search ==
    /\ last.op = "init"
    /\ \E maxBusinesses \in SearchCaps, world \in Worlds :
            SearchBusinesses(maxBusinesses, world)
    /\ UNCHANGED running
NextFinder == Search
SpecFinder == Init /\ [][NextFinder]_vars

\* one job of MaxLarge businesses under the scheduler: the provider returns as
\* many businesses as were asked for, each with the website http://foo.com, and
\* in a sending batch at most one message is not accepted
LargeUri == [scheme |-> "http", host |-> "foo.com", path |-> ""]
LargeData(js, j) == [i \in 1..js[j].maxBusinesses |-> ProspectData(j, LargeUri)]
LargeOutcomes(batch) ==
    {[p \in Seq2Set(batch) |-> IF p = q THEN o ELSE "sent"] :
        q \in Seq2Set(batch) \cup {0}, o \in {"reject400", "rejectOther"}}
LargeCost(batch, oc) == Cardinality({p \in Seq2Set(batch) : oc[p] # "sent"})

\* cron processJob, lines 79-96, against that provider
processJobLarge(js, ps, disp, led, j, snap, left, inScope) ==
    IF snap \in {"draft", "prospecting"}
    THEN {[r |-> handleProspecting(js, ps, disp, j, snap, LargeData(js, j), f, FALSE),
           nf |-> Bit(f # 0)] :
            f \in {g \in ProspectingFaultPoints(snap) : Bit(g # 0) <= left}}
    ELSE IF snap = "discovering"
    THEN {[r |-> handleEmailDiscovery(js, ps, disp, led, j, f, FALSE),
           nf |-> Bit(f # 0)] :
            f \in {g \in DiscoveryFaultPoints(ps, j) : Bit(g # 0) <= left}}
    ELSE LET batch == getProspectsForSending(ps, j, SENDING_BATCH_SIZE)
         IN  {[r |-> handleSending(js, ps, disp, led, j, x[1], x[2], FALSE, inScope),
               nf |-> LargeCost(batch, x[1]) + Bit(x[2] # 0)] :
                x \in {y \in LargeOutcomes(batch) \X SendingFaultPoints(ps, j) :
                        LargeCost(batch, y[1]) + Bit(y[2] # 0) <= left}}

\* cron GET, lines 38-74, over a store of at most one job
TickLarge(budget) ==
    /\ \E active \in {ActiveSnapshots(jobs, getAllJobs(jobs, GET_ALL_JOBS_LIMIT), 1)} :
        \E st \in IF active = <<>>
                  THEN {LoopStart(jobs, prospects, dispatched, faults, active)}
                  ELSE LoopBodyOf(LoopStart(jobs, prospects, dispatched, faults, active),
                                  active[1].id,
                                  processJobLarge(jobs, prospects, dispatched, ledger,
                                                  active[1].id, active[1].status,
                                                  budget - faults, prospectInScope),
                                  budget) :
            /\ jobs' = st.jobs
            /\ prospects' = st.prospects
            /\ dispatched' = st.dispatched
            /\ faults' = st.nf
            /\ last' = [Quiet EXCEPT !.op = "tick",
                                     !.status = IF st.aborted THEN 500 ELSE 200,
                                     !.loaded = st.loaded,
                                     !.erred = st.erred,
                                     !.writes = st.writes,
                                     !.sends = st.sends,
                                     !.processedJobs = IF st.aborted THEN 0
                                                       ELSE Len(active)]
    /\ UNCHANGED <<ledger, prospectInScope>>

CreateLarge == CreateJob(1, {MaxLarge}, MaxFaults) /\ UNCHANGED running
CronLarge == TickLarge(MaxFaults) /\ UNCHANGED running
NextLarge == CreateLarge \/ CronLarge
SpecLarge == Init /\ [][NextLarge]_vars

----------------------------------------------------------------------------
(* Properties *)

TerminalStatuses == {"completed", "failed"}

\* the edges of the job state machine
JobEdge(from, to) ==
    \/ <<from, to>> \in {<<"draft", "prospecting">>, <<"prospecting", "discovering">>,
                          <<"discovering", "sending">>, <<"sending", "completed">>}
    \/ (from \in ActiveStatuses /\ to = "failed")

\* the writes of the tick's record to job j, in order
RECURSIVE WritesTo(_, _)
WritesTo(log, j) ==
    IF log = <<>> THEN <<>>
    ELSE IF Head(log).job = j THEN <<Head(log)>> \o WritesTo(Tail(log), j)
    ELSE WritesTo(Tail(log), j)

\* C1: over non-overlapping ticks every change of a job's status is a step along
\* draft -> prospecting -> discovering -> sending -> completed or a step to failed
\* from a non-terminal status: the status writes a tick makes to a job start at the
\* job's status, each follows an edge, the last one is the job's new status, and a
\* job the tick wrote nothing to, a terminal job included, keeps its status.
C1_JobStatusEdges ==
    [][\A j \in 1..Len(jobs) :
        LET w == IF last'.op = "tick" THEN WritesTo(last'.writes, j) ELSE <<>>
        IN  /\ \A i \in 1..Len(w) : JobEdge(w[i].from, w[i].to)
            /\ \A i \in 1..Len(w) :
                    w[i].from = IF i = 1 THEN jobs[j].status ELSE w[i - 1].to
            /\ jobs'[j].status = IF w = <<>> THEN jobs[j].status ELSE w[Len(w)].to
            /\ jobs[j].status \in TerminalStatuses => jobs'[j].status = jobs[j].status
      ]_vars

\* a tick has just completed one job while another job is failed
C1_Witness ==
    /\ last.op = "tick"
    /\ \E i \in 1..Len(last.writes) : last.writes[i].to = "completed"
    /\ \E j \in 1..Len(jobs) : jobs[j].status = "failed"

Websites == {cleanWebsiteUrl(u) : u \in PlaceUris}

\* every candidate address of the website is suppressed
AllCandidatesSuppressed(led, website) ==
    LET candidates == generateInferredEmails(extractDomain(website))
    IN  \A i \in 1..Len(candidates) : isUnsubscribed(led, candidates[i])

\* C4: against every ledger the program reaches, discoverEmailForProspect never
\* returns an address the ledger suppresses, and a website all of whose candidates
\* are suppressed yields no_email with no address; a tick's discovery step stores
\* exactly what discoverEmailForProspect returns.
C4_NeverReturnsSuppressed ==
    [][/\ \A w \in Websites :
            LET r == discoverEmailForProspect(ledger, w)
            IN  /\ r.discoveredEmail # NoEmail => ~isUnsubscribed(ledger, r.discoveredEmail)
                /\ (w # NoWebsite /\ AllCandidatesSuppressed(ledger, w))
                        => r = [discoveredEmail |-> NoEmail, status |-> "no_email"]
       /\ last'.op = "tick" =>
            \A p \in 1..Len(prospects) :
                (prospects[p].status = "found" /\ prospects'[p].status # "found") =>
                    LET r == discoverEmailForProspect(ledger, prospects[p].website)
                    IN  /\ prospects'[p].status = r.status
                        /\ prospects'[p].discoveredEmail = r.discoveredEmail
      ]_vars

\* a tick has just left a prospect with a website in no_email, every candidate of
\* its website being suppressed
C4_Witness ==
    /\ last.op = "tick"
    /\ \E p \in 1..Len(prospects) :
            /\ prospects[p].status = "no_email"
            /\ prospects[p].website # NoWebsite
            /\ prospects[p].discoveredEmail = NoEmail
            /\ AllCandidatesSuppressed(ledger, prospects[p].website)

\* every job in the store has a terminal status
Converged == \A j \in 1..Len(jobs) : jobs[j].status \in TerminalStatuses

\* C5: when ticks keep being taken, every job eventually has a terminal status,
\* however many other jobs exist.
C5_EveryJobConverges == <>[]Converged

\* C6: every tick loads and dispatches every job whose status is not terminal,
\* whatever the number of jobs in the store.
C6_TickLoadsEveryActiveJob ==
    [][(last'.op = "tick" /\ ~last'.fetchFailed) =>
            /\ last'.loaded = {j \in 1..Len(jobs) : jobs[j].status \in ActiveStatuses}
            /\ last'.unreached = {}
      ]_vars

\* C7: a job whose processing raises an error ends the tick failed, also when the
\* store write that marks it failed fails; the other jobs of the tick are still
\* processed; the tick reports success with the count of the jobs it processed,
\* and reports failure only when the fetch of the job list fails.
C7_CrossJobIsolation ==
    last.op = "tick" =>
        /\ \A j \in last.erred : jobs[j].status = "failed"
        /\ last.unreached = {}
        /\ last.status = 500 <=> last.fetchFailed
        /\ last.status = 200 => last.processedJobs = Cardinality(last.loaded)

\* C8: a tick whose discovery handler works on a non-empty batch of fewer than
\* EMAIL_DISCOVERY_BATCH_SIZE prospects and leaves no prospect of the job in
\* found moves the job to sending in that same tick.
C8_DiscoveryAdvancesSameTick ==
    [][last'.op = "tick" =>
        \A j \in last'.loaded \ last'.erred :
            LET batch == getProspectsForJob(prospects, j, "found",
                                            EMAIL_DISCOVERY_BATCH_SIZE).prospects
            IN  (/\ jobs[j].status = "discovering"
                 /\ batch # <<>>
                 /\ Len(batch) < EMAIL_DISCOVERY_BATCH_SIZE
                 /\ IdsFrom(prospects', j, "found", 1) = <<>>)
                => jobs'[j].status = "sending"
      ]_vars

InfoAtFoo == [local |-> "info", domain |-> "foo.com"]
ContactAtFoo == [local |-> "contact", domain |-> "foo.com"]
HttpFoo == [scheme |-> "http", host |-> "foo.com", path |-> ""]

\* C9: with an unsubscribe recorded for info@foo.com and none recorded for
\* contact@foo.com, discovery for the website http://foo.com returns
\* contact@foo.com with status email_found.
C9_FirstUnsuppressedCandidate ==
    (/\ \E d \in BagToSet(ledger) : d.email = InfoAtFoo
     /\ \A d \in BagToSet(ledger) : d.email # ContactAtFoo)
    => discoverEmailForProspect(ledger, cleanWebsiteUrl(HttpFoo))
        = [discoveredEmail |-> ContactAtFoo, status |-> "email_found"]

\* C10: an unsubscribe request whose token names an existing prospect and an
\* email other than the prospect's stored discoveredEmail is rejected: it is
\* answered 400 (500 when the read of the prospect fails), it writes no ledger
\* entry and leaves the prospect as it was.
C10_MismatchRejected ==
    [][(last'.op = "unsubscribe" /\ last'.case = "mismatch") =>
            /\ last'.status = IF faults' = faults THEN 400 ELSE 500
            /\ ledger' = ledger
            /\ prospects' = prospects
      ]_vars

\* a request with a mismatching token for a prospect with a discovered address has
\* just been answered 400
C10_Witness ==
    /\ last.op = "unsubscribe"
    /\ last.case = "mismatch"
    /\ last.status = 400
    /\ \E p \in 1..Len(prospects) : prospects[p].discoveredEmail # NoEmail

\* the prospects of job j
ProspectsOf(ps, j) == {p \in 1..Len(ps) : ps[p].jobId = j}

\* C11: a job for which the provider returns no business, or only businesses
\* without a website, is only ever seen in draft, discovering, sending or
\* completed, never in failed, always has stats.sent = 0, keeps all six counters
\* at 0 when it has no business at all, and, ticks being taken again and again,
\* reaches completed.
C11_NoSitesCompletes ==
    /\ [](\A j \in 1..Len(jobs) :
            /\ jobs[j].status \in {"draft", "discovering", "sending", "completed"}
            /\ jobs[j].stats.sent = 0
            /\ ProspectsOf(prospects, j) = {} => jobs[j].stats = ZeroStats)
    /\ \A j \in 1..MaxJobs :
            (j <= Len(jobs)) ~> (j <= Len(jobs) /\ jobs[j].status = "completed")

\* one job has completed with businesses, none of which has a website, another one
\* with no business at all
C11_Witness ==
    /\ \E j \in 1..Len(jobs) :
            /\ jobs[j].status = "completed"
            /\ ProspectsOf(prospects, j) # {}
            /\ \A p \in ProspectsOf(prospects, j) : prospects[p].status = "no_website"
            /\ jobs[j].stats.found > 0
    /\ \E j \in 1..Len(jobs) :
            /\ jobs[j].status = "completed"
            /\ ProspectsOf(prospects, j) = {}

\* C12: for every job that has left the prospecting stage (discovering or later,
\* or failed), stats.found is the number of prospect documents of the job, also
\* when a step of the prospecting handler fails after the batch write; and
\* stats.found never decreases.
C12_FoundCountsProspects ==
    [][\A j \in 1..Len(jobs) :
        /\ jobs'[j].status \in {"discovering", "sending", "completed", "failed"}
                => jobs'[j].stats.found = Cardinality(ProspectsOf(prospects', j))
        /\ jobs'[j].stats.found >= jobs[j].stats.found
      ]_vars

\* the statuses of a prospect that has been given an address
WithEmailStatuses == {"email_found", "sent", "bounced", "unsubscribed"}

\* C13: in every reachable state every prospect has a discoveredEmail exactly when
\* its status is email_found, sent, bounced or unsubscribed, also when two
\* discovering handlers process the same prospect against different ledgers.
C13_EmailIffStatus ==
    \A p \in 1..Len(prospects) :
        prospects[p].discoveredEmail # NoEmail
            <=> prospects[p].status \in WithEmailStatuses

\* C14: each of the six stats counters of a job is non-negative and never
\* decreases, under any sequence of requests, status-update requests included.
C14_StatsMonotone ==
    [][\A j \in 1..Len(jobs) : \A k \in DOMAIN ZeroStats :
            /\ jobs'[j].stats[k] >= jobs[j].stats[k]
            /\ jobs'[j].stats[k] >= 0
      ]_vars

\* C17: after its creation a job's status and stats are changed by nothing but the
\* scheduler tick.
C17_OnlyTickChangesJobs ==
    [][\A j \in 1..Len(jobs) : jobs'[j] # jobs[j] => last'.op = "tick"]_vars

\* the edges of the prospect state machine
ProspectEdge(from, to) ==
    \/ from = "found" /\ to \in {"no_website", "no_email", "email_found"}
    \/ from = "email_found" /\ to \in {"sent", "bounced", "unsubscribed"}
    \/ from = "sent" /\ to \in {"bounced", "unsubscribed"}

C16_NoWebsiteNoEmail ==
    \A p \in 1..Len(prospects) :
        prospects[p].website = NoWebsite =>
            /\ prospects[p].status \in {"found", "no_website"}
            /\ prospects[p].discoveredEmail = NoEmail
            /\ dispatched[p] = 0

\* the job has completed, one of its prospects was sent a message, and its prospect
\* without a website is in no_website
C16_Witness ==
    /\ \E p \in 1..Len(prospects) :
            /\ prospects[p].website = NoWebsite
            /\ prospects[p].status = "no_website"
            /\ jobs[prospects[p].jobId].status = "completed"
    /\ \E p \in 1..Len(prospects) : dispatched[p] > 0

\* C20: a delivery event whose message id is recorded for no prospect changes no
\* prospect and adds no ledger entry; an event matching a prospect by its recorded
\* message id changes that prospect only: bounce and dropped mark it bounced with a
\* reason, unsubscribe appends the event's email to the ledger and marks it
\* unsubscribed, delivered changes nothing.
C20_DeliveryEvents ==
    [][last'.op = "event" =>
        LET e == last'.event
            p == e.prospect
        IN  /\ last'.case \in {"ignored", "unknown"} => UNCHANGED <<prospects, ledger>>
            /\ last'.case = "unknown" =>
                    \A q \in 1..Len(prospects) : prospects[q].sendGridMessageId # e.messageId
            /\ last'.case = "matched" =>
                /\ prospects[p].sendGridMessageId = e.messageId
                /\ \A q \in 1..Len(prospects) : q # p => prospects'[q] = prospects[q]
                /\ e.type \in {"bounce", "dropped"} =>
                        /\ prospects'[p].status = "bounced"
                        /\ prospects'[p].bounceReason # ""
                        /\ ledger' = ledger
                /\ e.type = "unsubscribe" =>
                        /\ prospects'[p].status = "unsubscribed"
                        /\ ledger' = ledger (+) SetToBag({UnsubDoc(e.email, prospects[p].jobId)})
                        /\ isUnsubscribed(ledger', e.email)
                /\ e.type \notin {"bounce", "dropped", "unsubscribe"} =>
                        UNCHANGED <<prospects, ledger>>
      ]_vars

\* a bounce event has just marked a sent prospect bounced
C20_Witness ==
    /\ last.op = "event"
    /\ last.case = "matched"
    /\ last.event.type = "bounce"
    /\ prospects[last.event.prospect].status = "bounced"
    /\ prospects[last.event.prospect].sentAt

\* C18: a manual send for a missing job or a job whose status is not sending sends
\* nothing and changes no job, prospect or ledger record; for a job in sending it
\* handles the batch getProspectsForSending returns (at most 10 prospects, all
\* email_found prospects of the job) and nothing else: it changes no job and no
\* ledger record, touches no prospect outside the batch, and, when no call fails,
\* leaves every prospect of the batch sent or bounced.
C18_ManualSendOnlyWhenSending ==
    [][\A j \in {1, 2} : ManualSend(j, MaxFaults) =>
        LET sending == j \in 1..Len(jobs) /\ jobs[j].status = "sending"
            batch == Seq2Set(getProspectsForSending(prospects, j, MANUAL_SEND_BATCH_SIZE))
        IN  /\ last'.op = "send"
            /\ ~sending =>
                    /\ last'.sends = <<>>
                    /\ last'.status \in {400, 404, 500}
                    /\ UNCHANGED <<jobs, prospects, ledger, dispatched>>
            /\ sending =>
                    /\ Cardinality(batch) <= MANUAL_SEND_BATCH_SIZE
                    /\ \A p \in batch : prospects[p].jobId = j
                                         /\ prospects[p].status = "email_found"
                    /\ \A i \in 1..Len(last'.sends) : last'.sends[i].prospect \in batch
                    /\ \A p \in 1..Len(prospects) :
                            p \notin batch => /\ prospects'[p] = prospects[p]
                                               /\ dispatched'[p] = dispatched[p]
                    /\ UNCHANGED <<jobs, ledger>>
                    /\ (faults' = faults /\ prospectInScope) =>
                            /\ last'.status = 200
                            /\ \A p \in batch : prospects'[p].status \in {"sent", "bounced"}
      ]_vars

\* a manual send for a job in sending has just sent a message to a prospect that
\* was email_found
C18_Witness ==
    /\ last.op = "send"
    /\ last.status = 200
    /\ Len(last.sends) > 0
    /\ prospects[last.sends[1].prospect].status = "sent"
    /\ jobs[prospects[last.sends[1].prospect].jobId].status = "sending"

\* a manual send for a job that is not in sending has just been answered 400
C18_WitnessRefused ==
    /\ last.op = "send"
    /\ last.status = 400
    /\ \E p \in 1..Len(prospects) : prospects[p].status = "email_found"

\* C19: an unsubscribe request whose token carries a prospect id and an email, when
\* no call of the store fails: if the prospect exists and its discoveredEmail is
\* the token's email, the email is added to the ledger (with the prospect's job)
\* and the prospect becomes unsubscribed; if no such prospect exists, the email is
\* added to the ledger and the request is answered 200 with the confirmation; in
\* both cases isUnsubscribed(email) holds afterwards.
C19_UnsubscribeRecords ==
    [][\A p \in 0..(MaxProspects + 1), email \in ExternalEmails :
        LET case == TokenCase(prospects, p, email)
        IN  (UnsubscribeLink(p, email, MaxFaults) /\ faults' = faults
                /\ case \in {"match", "unknown"}) =>
                /\ last'.op = "unsubscribe"
                /\ last'.status = 200
                /\ isUnsubscribed(ledger', email)
                /\ case = "match" =>
                        /\ ledger' = ledger (+) SetToBag({UnsubDoc(email, prospects[p].jobId)})
                        /\ prospects'[p].status = "unsubscribed"
                        /\ \A q \in 1..Len(prospects) : q # p => prospects'[q] = prospects[q]
                /\ case = "unknown" =>
                        /\ ledger' = ledger (+) SetToBag({UnsubDoc(email, 0)})
                        /\ prospects' = prospects
      ]_vars

\* a request with the token of an existing prospect and its address has just been
\* answered 200: the prospect is unsubscribed and its address suppressed
C19_Witness ==
    /\ last.op = "unsubscribe"
    /\ last.case = "match"
    /\ last.status = 200
    /\ \E p \in 1..Len(prospects) :
            /\ prospects[p].status = "unsubscribed"
            /\ isUnsubscribed(ledger, prospects[p].discoveredEmail)

\* a request with the token of no prospect has just been answered 200 and its
\* address is in the ledger
C19_WitnessUnknown ==
    /\ last.op = "unsubscribe"
    /\ last.case = "unknown"
    /\ last.status = 200
    /\ BagCardinality(ledger) > 0

\* C21: a tick in which no call fails and which runs the discovering handler on a
\* job none of whose prospects is in status found changes that job's status to
\* sending and nothing else: the job's stats and its other fields, its prospects
\* and the ledger are as before; the same holds when the job is brought back to
\* discovering and the handler runs again.
C21_EmptyDiscoveryOnlyAdvances ==
    [][\A j \in 1..Len(jobs) :
        (/\ last'.op = "tick"
         /\ j \in last'.loaded
         /\ jobs[j].status = "discovering"
         /\ \A p \in ProspectsOf(prospects, j) : prospects[p].status # "found"
         /\ faults' = faults) =>
            /\ jobs'[j] = [jobs[j] EXCEPT !.status = "sending"]
            /\ ProspectsOf(prospects', j) = ProspectsOf(prospects, j)
            /\ \A p \in ProspectsOf(prospects, j) :
                    prospects'[p] = prospects[p] /\ dispatched'[p] = dispatched[p]
            /\ ledger' = ledger
      ]_vars

\* the discovering handler has just run again on a job that had been in sending
\* before (one of its prospects is sent) and has moved it to sending
C21_Witness ==
    /\ last.op = "tick"
    /\ \E j \in last.loaded :
            /\ jobs[j].status = "sending"
            /\ WritesTo(last.writes, j) = <<[job |-> j, from |-> "discovering", to |-> "sending"]>>
            /\ \E p \in ProspectsOf(prospects, j) : prospects[p].status = "sent"
            /\ \A p \in ProspectsOf(prospects, j) : prospects[p].status # "found"

\* the addresses isUnsubscribed is asked about: those recorded, in either case, and
\* the inferred addresses of their domains and of another domain
QueryEmails ==
    LedgerEmails \cup {[local |-> l, domain |-> d] :
                            l \in Seq2Set(EMAIL_PATTERNS), d \in {"foo.com", "Foo.com", "bar.com"}}

\* e is the email, up to case, or at the domain of the email
SameEmailOrDomain(e, email) ==
    LowerEmail(e) = LowerEmail(email) \/ Lower(e.domain) = Lower(email.domain)

\* C22: an address isUnsubscribed answers true for stays so in every later state;
\* once an unsubscribe request has recorded an email, isUnsubscribed is true for
\* that email in any case and for every address at its domain; and recording an
\* email the ledger already holds changes the answer of no isUnsubscribed query.
C22_SuppressionPermanent ==
    [][/\ \A e \in QueryEmails : isUnsubscribed(ledger, e) => isUnsubscribed(ledger', e)
       /\ \A p \in 0..(MaxProspects + 1), email \in LedgerEmails :
            (UnsubscribeLinkUpTo(p, email, 0, MaxRecords) /\ last'.status = 200) =>
                /\ \A e \in QueryEmails :
                        SameEmailOrDomain(e, email) => isUnsubscribed(ledger', e)
                /\ (\E d \in BagToSet(ledger) : d.email = LowerEmail(email)) =>
                        \A e \in QueryEmails :
                            isUnsubscribed(ledger', e) = isUnsubscribed(ledger, e)
      ]_vars

\* an unsubscribe request has just recorded an email the ledger held already
C22_Witness ==
    /\ last.op = "unsubscribe"
    /\ last.status = 200
    /\ \E d \in BagToSet(ledger) : CopiesIn(d, ledger) = 2

\* the provider answers every request of the search without a failure
NoPageFails(world) ==
    world.geocode = "ok" /\ \A k \in 1..MaxPages : world.pages[k] = "ok"

\* C23: the Business Finder returns at most max-count businesses, and when the
\* provider has at least max-count places, on however many pages, and no request
\* fails, it returns exactly max-count businesses.
C23_ExactlyMaxCount ==
    last.op = "search" =>
        LET search == last.search
        IN  /\ Len(search.result.businesses) <= search.maxBusinesses
            /\ (NoPageFails(search.world) /\ search.world.total >= search.maxBusinesses) =>
                    /\ ~search.result.thrown
                    /\ Len(search.result.businesses) = search.maxBusinesses

\* the businesses of the first results page, as searchBusinesses maps them
FirstPage(world, maxBusinesses) ==
    MapPlaces(PlacesResponse(world, 0, 1, Min(maxBusinesses, PLACES_PAGE_SIZE)).places)

\* the search goes on to a continuation page
AsksNextPage(world, maxBusinesses) ==
    /\ NoPageToken #
            PlacesResponse(world, 0, 1, Min(maxBusinesses, PLACES_PAGE_SIZE)).nextPageToken
    /\ Len(FirstPage(world, maxBusinesses)) < maxBusinesses

\* C27: a failure of geocoding or of the request for the first results page makes
\* the Business Finder throw, and the prospecting handler then marks the job
\* failed; a failure of the request for a continuation page, an error response or
\* a network error, is swallowed: the finder returns the businesses accumulated
\* so far.
C27_FinderFailures ==
    last.op = "search" =>
        LET world == last.search.world
            maxBusinesses == last.search.maxBusinesses
            result == last.search.result
        IN  /\ (world.geocode # "ok"
                    \/ world.pages[1] \in {"error_response", "network_error"}) =>
                    /\ result.thrown
                    /\ handleProspecting(<<NewJob(maxBusinesses)>>, <<>>, <<>>, 1, "draft",
                                         <<>>, 2, FALSE).jobs[1].status = "failed"
            /\ (/\ world.geocode = "ok"
                 /\ world.pages[1] = "ok"
                 /\ AsksNextPage(world, maxBusinesses)
                 /\ world.pages[2] \in {"error_response", "network_error"}) =>
                    /\ ~result.thrown
                    /\ result.businesses = Take(FirstPage(world, maxBusinesses), maxBusinesses)

\* C24: in a tick that runs the sending handler on a job with a non-empty batch, in
\* which the provider rejects no message and no call of the store fails, every
\* prospect of the batch ends sent with the provider's message id recorded,
\* stats.sent grows by the size of the batch, stats.bounced is unchanged and the
\* job stays in sending; a tick that finds no email_found prospect of a sending job
\* completes the job.
C24_AcceptedBatchSent ==
    [][\A j \in 1..Len(jobs) :
        (/\ last'.op = "tick"
         /\ j \in last'.loaded
         /\ jobs[j].status = "sending"
         /\ faults' = faults) =>
            LET batch == getProspectsForSending(prospects, j, SENDING_BATCH_SIZE)
            IN  /\ (/\ batch # <<>>
                     /\ \A i \in 1..Len(batch) : prospects'[batch[i]].status # "bounced") =>
                        /\ \A i \in 1..Len(batch) :
                                /\ prospects'[batch[i]].status = "sent"
                                /\ prospects'[batch[i]].sendGridMessageId # NoMessageId
                                /\ dispatched'[batch[i]] = dispatched[batch[i]] + 1
                        /\ jobs'[j].stats.sent = jobs[j].stats.sent + Len(batch)
                        /\ jobs'[j].stats.bounced = jobs[j].stats.bounced
                        /\ jobs'[j].status = "sending"
                /\ batch = <<>> => jobs'[j].status = "completed"
      ]_vars

\* the place of a status in the pipeline
PipelineRank(status) ==
    CASE status = "draft" -> 0
      [] status = "prospecting" -> 1
      [] status = "discovering" -> 2
      [] status = "sending" -> 3
      [] OTHER -> 4

\* C25: with ticks that overlap on a job, each running the handler of the status
\* it loaded, and an operator who sets the job to failed while a tick is running,
\* a job's status never leaves completed or failed and never moves backward in
\* the pipeline order.
C25_NoBackwardUnderOverlap ==
    [][\A j \in 1..Len(jobs) :
        /\ jobs[j].status \in TerminalStatuses => jobs'[j].status = jobs[j].status
        /\ PipelineRank(jobs'[j].status) >= PipelineRank(jobs[j].status)
      ]_vars

\* C26: over ticks in any order or interleaving, a tick that ends after setting
\* status prospecting or after the batch write and two ticks that both loaded the
\* job as draft included, the Business Finder result is persisted as prospect
\* rows at most once for a job and stats.found is incremented at most once: a job
\* that has prospect rows gets no further ones, and a stats.found above 0 does
\* not change.
C26_ProspectingOnce ==
    [][\A j \in 1..Len(jobs) :
        /\ ProspectsOf(prospects, j) # {} =>
                ProspectsOf(prospects', j) = ProspectsOf(prospects, j)
        /\ jobs[j].stats.found > 0 => jobs'[j].stats.found = jobs[j].stats.found
      ]_vars

\* C28: within one batch at most one send is in flight at any time, and the send
\* for the next prospect starts only when the call for the previous one has
\* returned (send and record updates done) and the delay after it has elapsed.
C28_SendsSequential ==
    [][\A k \in 1..Len(running) :
        /\ Cardinality(InFlight(running[k])) <= 1
        /\ (k <= Len(running') /\ running'[k].started = running[k].started + 1
                /\ running[k].started > 0) =>
                /\ running[k].started \in running[k].returned
                /\ running[k].started \in running[k].waited
                /\ Cardinality(InFlight(running'[k])) = 1
      ]_vars

\* the send for the second prospect of a batch is in flight, the one for the
\* first having returned with the prospect sent
C28_Witness ==
    \E k \in 1..Len(running) :
        /\ running[k].started = 2
        /\ InFlight(running[k]) = {2}
        /\ prospects[running[k].batch[1]].status = "sent"

\* C29: whatever happens to the single messages of a batch (the provider accepts
\* or rejects, a record update after the send throws), the sending handler
\* attempts every prospect of the batch, so that each is counted as sent or as
\* failed, the batch returns its counts instead of raising, and the job is not
\* marked failed: it stays in sending.
C29_MessageFailuresIsolated ==
    \A j \in 1..Len(jobs) :
        LET batch == getProspectsForSending(prospects, j, SENDING_BATCH_SIZE)
        IN  (jobs[j].status = "sending" /\ batch # <<>>) =>
                \A oc \in [Seq2Set(batch) -> SendOutcomes] :
                    LET r == handleSending(jobs, prospects, dispatched, ledger, j, oc, 0,
                                           FALSE, prospectInScope)
                    IN  /\ ~r.escaped
                        /\ r.jobs[j].status = "sending"
                        /\ (r.jobs[j].stats.sent - jobs[j].stats.sent)
                             + (r.jobs[j].stats.bounced - jobs[j].stats.bounced) = Len(batch)

C31_HandlerErrorFailsJob ==
    [][last'.op = "tick" =>
        /\ \A j \in last'.erred : jobs'[j].status = "failed"
        /\ \A j \in last'.loaded : jobs[j].status \notin TerminalStatuses
      ]_vars

\* C32: a tick moves a job from discovering to sending only when no prospect of
\* the job is in found, before and after the step; a discovering job whose
\* handler ran without raising an error and left a prospect in found is still
\* in discovering after the tick.
FoundOf(ps, j) == {p \in ProspectsOf(ps, j) : ps[p].status = "found"}
C32_SendingOnlyWithoutFound ==
    [][last'.op = "tick" =>
        \A j \in 1..Len(jobs) :
            /\ (jobs[j].status = "discovering" /\ jobs'[j].status = "sending")
                    => (FoundOf(prospects, j) = {} /\ FoundOf(prospects', j) = {})
            /\ (/\ jobs[j].status = "discovering"
                /\ j \in last'.loaded \ last'.erred
                /\ FoundOf(prospects', j) # {})
                    => jobs'[j].status = "discovering"
      ]_vars
C32_Witness ==
    /\ last.op = "tick"
    /\ last.writes = <<[job |-> 1, from |-> "discovering", to |-> "sending"]>>
    /\ Cardinality(ProspectsOf(prospects, 1)) = MaxLarge
    /\ \A p \in ProspectsOf(prospects, 1) : prospects[p].status = "email_found"
C32_WitnessStays ==
    /\ last.op = "tick"
    /\ last.loaded = {1}
    /\ last.erred = {}
    /\ jobs[1].status = "discovering"
    /\ Cardinality(FoundOf(prospects, 1)) = MaxLarge - EMAIL_DISCOVERY_BATCH_SIZE
    /\ jobs[1].stats.withEmail = EMAIL_DISCOVERY_BATCH_SIZE

\* C33: a tick moves a job to completed only from sending and only when its
\* query for the job's email_found prospects is empty; such a tick sends nothing
\* for the job and changes none of its prospects. A sending tick that fetched a non-empty batch leaves
\* the job's status other than completed.
C33_CompletedOnlyOnEmptyBatch ==
    [][last'.op = "tick" =>
        \A j \in 1..Len(jobs) :
            /\ (jobs[j].status # "completed" /\ jobs'[j].status = "completed")
                    => /\ jobs[j].status = "sending"
                       /\ getProspectsForSending(prospects, j, SENDING_BATCH_SIZE) = <<>>
                       /\ \A i \in 1..Len(last'.sends) :
                            prospects'[last'.sends[i].prospect].jobId # j
                       /\ \A p \in ProspectsOf(prospects', j) :
                            p \in ProspectsOf(prospects, j) /\ prospects'[p] = prospects[p]
            /\ (/\ j \in last'.loaded
                /\ jobs[j].status = "sending"
                /\ getProspectsForSending(prospects, j, SENDING_BATCH_SIZE) # <<>>)
                    => jobs'[j].status \in {"sending", "failed"}
      ]_vars
C33_Witness ==
    /\ last.op = "tick"
    /\ last.writes = <<[job |-> 1, from |-> "sending", to |-> "completed"]>>
    /\ jobs[1].stats.sent = MaxLarge
    /\ \A p \in ProspectsOf(prospects, 1) : prospects[p].status = "sent"
C33_WitnessLastBatch ==
    /\ last.op = "tick"
    /\ last.loaded = {1}
    /\ Len(last.sends) = 1
    /\ jobs[1].status = "sending"
    /\ \A p \in ProspectsOf(prospects, 1) : prospects[p].status = "sent"

\* C34: the processing of job J in a tick (its stage handler and the loop's catch)
\* changes only J's job record and the prospects whose jobId is J, creating
\* prospects of J only; every other job record and every prospect of another job
\* stay as they are, and a tick leaves the Suppression Ledger unchanged.
FrameOf(js, ps, j, js2, ps2) ==
    /\ Len(js2) = Len(js)
    /\ \A k \in 1..Len(js) : k # j => js2[k] = js[k]
    /\ Len(ps2) >= Len(ps)
    /\ \A p \in 1..Len(ps) : ps[p].jobId # j => ps2[p] = ps[p]
    /\ \A p \in 1..Len(ps2) : ps2[p].jobId = j <=> (p > Len(ps) \/ ps[p].jobId = j)
C34_HandlerFrame ==
    [][last'.op = "tick" =>
        /\ ledger' = ledger
        /\ \A j \in 1..Len(jobs) \ last'.loaded :
            /\ jobs'[j] = jobs[j]
            /\ \A p \in 1..Len(prospects) : prospects[p].jobId = j => prospects'[p] = prospects[p]
            /\ \A p \in 1..Len(prospects') : prospects'[p].jobId = j => p <= Len(prospects)
        /\ \A j \in {k \in 1..Len(jobs) : jobs[k].status \in ActiveStatuses} :
            \A st \in LoopBody(LoopStart(jobs, prospects, dispatched, 0, <<>>), ledger,
                               [id |-> j, status |-> jobs[j].status], EngineUris,
                               MaxTickFaults, prospectInScope) :
                FrameOf(jobs, prospects, j, st.jobs, st.prospects)
      ]_vars
C34_Witness ==
    /\ last.op = "tick"
    /\ last.loaded = {1, 2}
    /\ \E i, k \in 1..Len(last.writes) : last.writes[i].job = 1 /\ last.writes[k].job = 2
    /\ \E p, q \in 1..Len(prospects) :
        /\ prospects[p].jobId = 1 /\ prospects[p].status = "email_found"
        /\ prospects[q].jobId = 2 /\ prospects[q].status = "sent"

\* C35: in one tick and for each job, at most EMAIL_DISCOVERY_BATCH_SIZE prospects
\* leave found, at most SENDING_BATCH_SIZE prospects are sent to or changed by the
\* sending handler, and only the handler of the status the job was loaded with
\* acts: prospects are created for a draft or prospecting job only, prospects
\* leave found for a discovering job only, and messages go out for a sending job
\* only; a loaded job has at most the status writes of one handler.
Inferred(j) ==
    {p \in ProspectsOf(prospects, j) :
        prospects[p].status = "found" /\ prospects'[p].status # "found"}
Attempted(j) ==
    {p \in ProspectsOf(prospects, j) :
        prospects[p].status = "email_found"
            /\ (prospects'[p] # prospects[p] \/ dispatched'[p] # dispatched[p])}
Created(j) == {p \in ProspectsOf(prospects', j) : p > Len(prospects)}
C35_BoundedWorkPerTick ==
    [][last'.op = "tick" =>
        \A j \in 1..Len(jobs) :
            /\ Cardinality(Inferred(j)) <= EMAIL_DISCOVERY_BATCH_SIZE
            /\ Cardinality(Attempted(j)) <= SENDING_BATCH_SIZE
            /\ Cardinality({i \in 1..Len(last'.sends) :
                    prospects[last'.sends[i].prospect].jobId = j}) <= SENDING_BATCH_SIZE
            /\ Created(j) # {} => jobs[j].status \in {"draft", "prospecting"}
            /\ Inferred(j) # {} => jobs[j].status = "discovering"
            /\ Attempted(j) # {} => jobs[j].status = "sending"
            /\ [i \in 1..Len(WritesTo(last'.writes, j)) |-> WritesTo(last'.writes, j)[i].to] \in
                    {<<>>, <<"failed">>, <<"prospecting", "discovering">>,
                     <<"prospecting", "failed">>, <<"discovering">>, <<"sending">>,
                     <<"completed">>}
      ]_vars
C35_Witness ==
    /\ last.op = "tick"
    /\ Len(last.sends) = SENDING_BATCH_SIZE
    /\ jobs[1].stats.sent = SENDING_BATCH_SIZE
    /\ Cardinality({p \in ProspectsOf(prospects, 1) : prospects[p].status = "email_found"})
            = MaxLarge - SENDING_BATCH_SIZE
C35_WitnessDiscovery ==
    /\ last.op = "tick"
    /\ Len(jobs) = 1
    /\ jobs[1].status = "discovering"
    /\ Cardinality({p \in ProspectsOf(prospects, 1) : prospects[p].status = "email_found"})
            = EMAIL_DISCOVERY_BATCH_SIZE
    /\ Cardinality(FoundOf(prospects, 1)) >= 1

\* C36: in every state every job has stats.withEmail <= stats.withWebsite <=
\* stats.found.
C36_StatsOrdered ==
    \A j \in 1..Len(jobs) :
        /\ jobs[j].stats.withEmail <= jobs[j].stats.withWebsite
        /\ jobs[j].stats.withWebsite <= jobs[j].stats.found

DiscoverySites ==
    (Websites \cup {cleanWebsiteUrl([scheme |-> "http", host |-> h, path |-> ""]) :
                        h \in {"foo.com", "Foo.com", "bar.com"}}) \ {NoWebsite}
RecordedDomain(led, domain) == \E d \in BagToSet(led) : d.domain = domain
UniformSuppression(led, ps) ==
    /\ \A d \in BagToSet(led) : d.domain = Lower(d.email.domain)
    /\ \A w \in DiscoverySites :
        LET domain == extractDomain(w)
            candidates == generateInferredEmails(domain)
            r == discoverEmailForProspect(led, w)
        IN  /\ \A i, k \in 1..Len(candidates) :
                    isUnsubscribed(led, candidates[i]) = isUnsubscribed(led, candidates[k])
            /\ r.discoveredEmail # NoEmail
                    => /\ r.discoveredEmail = [local |-> "info", domain |-> domain]
                       /\ r.status = "email_found"
            /\ RecordedDomain(led, domain)
                    => r = [discoveredEmail |-> NoEmail, status |-> "no_email"]
    /\ \A p \in 1..Len(ps) :
            ps[p].discoveredEmail # NoEmail
                => ps[p].discoveredEmail
                        = [local |-> "info", domain |-> extractDomain(ps[p].website)]
C39_DomainSuppressionUniform ==
    [][/\ UniformSuppression(ledger', prospects')
       /\ last'.op = "tick" =>
            \A p \in 1..Len(prospects) :
                (/\ prospects[p].status = "found"
                 /\ prospects'[p].status # "found"
                 /\ RecordedDomain(ledger, extractDomain(prospects[p].website)))
                    => /\ prospects'[p].status = "no_email"
                       /\ prospects'[p].discoveredEmail = NoEmail
      ]_vars
C39_Witness ==
    /\ last.op = "tick"
    /\ \E d \in BagToSet(ledger) : d.email = ContactAtFoo
    /\ \A d \in BagToSet(ledger) : d.email # InfoAtFoo
    /\ \E p \in 1..Len(prospects) :
        /\ prospects[p].website = HttpFoo
        /\ prospects[p].status = "no_email"

\* C40: stats.unsubscribed of every job is 0 in every state reached through
\* ticks, manual sends, unsubscribe-link requests and delivery events, and an
\* unsubscribe-link request or a delivery event (a bounce among them) leaves
\* every job record, stats.bounced included, unchanged.
C40_UnsubscribedStatStaysZero ==
    [][/\ \A j \in 1..Len(jobs') : jobs'[j].stats.unsubscribed = 0
       /\ last'.op \in {"event", "unsubscribe"} => jobs' = jobs
      ]_vars
C40_Witness ==
    /\ last.op = "event"
    /\ last.case = "matched"
    /\ last.event.type = "bounce"
    /\ prospects[last.event.prospect].status = "bounced"
    /\ jobs[prospects[last.event.prospect].jobId].stats.bounced = 0
    /\ jobs[prospects[last.event.prospect].jobId].stats.sent = 1
C40_WitnessUnsubscribed ==
    \E p \in 1..Len(prospects) :
        /\ prospects[p].status = "unsubscribed"
        /\ jobs[prospects[p].jobId].stats.unsubscribed = 0

====
